---- MODULE Spec2Model ----
(***************************************************************************)
(* Model of the Akumuli block codec (libakumuli/storage_engine/            *)
(* compression.h): the Base128 (LEB128) stream, the Delta and RLE integer  *)
(* transforms, and the DataBlockWriter / DataBlockReader built on them.    *)
(*                                                                         *)
(* A 64-bit unsigned integer (u64) is a tuple of 8 bytes, least            *)
(* significant byte first, so that all arithmetic keeps its 64-bit width.  *)
(* A byte buffer is a sequence of bytes; the C++ pointer p into a buffer   *)
(* that starts at begin_ is the offset p - begin_, and *p is mem[p + 1].   *)
(***************************************************************************)
EXTENDS Integers, Sequences, FiniteSets, TLC

VARIABLES
    stream_,        \* Base128StreamWriter: [mem, pos_, end_] (begin_ is offset 0)
    ts_stream_,     \* DeltaRLEWriter: [prev_, stream_ |-> [prev_, reps_]]
    val_stream_,    \* FcmStreamWriter
    write_index_,   \* DataBlockWriter::write_index_
    ts_writebuf_,   \* DataBlockWriter::ts_writebuf_
    val_writebuf_,  \* DataBlockWriter::val_writebuf_
    nchunks_,       \* DataBlockWriter::nchunks_: offset of the header's nchunks field
    ntail_,         \* DataBlockWriter::ntail_: offset of the header's ntail field
    lifecycle,      \* "unwritable", "open" (appending) or "sealed" (after commit)
    reader,         \* the reading side (Base128StreamReader and what is stacked on it)
    input,          \* the values or samples the caller is going to write
    accepted,       \* history: what the writer accepted, in order
    output,         \* history: what the reader returned, in order
    last            \* history: the last call, its arguments, result and pre-state

\* the fields of DataBlockWriter above its two integer streams
blockVars == <<val_stream_, write_index_, ts_writebuf_, val_writebuf_, nchunks_, ntail_,
               lifecycle>>

vars == <<stream_, ts_stream_, blockVars, reader, input, accepted, output, last>>

-----------------------------------------------------------------------------
(* 64-bit unsigned arithmetic on 8-byte tuples *)

U64Zero == <<0, 0, 0, 0, 0, 0, 0, 0>>
U64Max == <<255, 255, 255, 255, 255, 255, 255, 255>>

\* the u64 whose value is the natural number n < 2^31
U64FromNat(n) ==
    <<n % 256, (n \div 256) % 256, (n \div 65536) % 256, (n \div 16777216) % 256,
      0, 0, 0, 0>>

\* 2^k and 2^k - 1 as u64, 0 <= k <= 63
U64Pow2(k) == [i \in 1..8 |-> IF i - 1 = k \div 8 THEN 2 ^ (k % 8) ELSE 0]
U64Pow2m1(k) ==
    [i \in 1..8 |-> IF i - 1 < k \div 8 THEN 255
                    ELSE IF i - 1 = k \div 8 THEN 2 ^ (k % 8) - 1 ELSE 0]

RECURSIVE U64AddC(_, _, _, _)
U64AddC(a, b, i, carry) ==
    IF i > 8 THEN <<>>
    ELSE LET s == a[i] + b[i] + carry
         IN  <<s % 256>> \o U64AddC(a, b, i + 1, s \div 256)

\* a + b modulo 2^64
U64Add(a, b) == U64AddC(a, b, 1, 0)

RECURSIVE U64SubB(_, _, _, _)
U64SubB(a, b, i, borrow) ==
    IF i > 8 THEN <<>>
    ELSE LET d == a[i] - b[i] - borrow
         IN  <<(d + 256) % 256>> \o U64SubB(a, b, i + 1, IF d < 0 THEN 1 ELSE 0)

\* a - b modulo 2^64
U64Sub(a, b) == U64SubB(a, b, 1, 0)

\* value & 0x7F
U64Low7(v) == v[1] % 128

\* value >> 7
U64Shr7(v) ==
    [i \in 1..8 |-> (v[i] \div 128) + (IF i < 8 THEN (v[i + 1] % 128) * 2 ELSE 0)]

RECURSIVE OrBits(_, _, _)
OrBits(a, b, n) ==
    IF n = 0 THEN 0
    ELSE (IF a % 2 = 1 \/ b % 2 = 1 THEN 1 ELSE 0) + 2 * OrBits(a \div 2, b \div 2, n - 1)

RECURSIVE XorBits(_, _, _)
XorBits(a, b, n) ==
    IF n = 0 THEN 0
    ELSE ((a + b) % 2) + 2 * XorBits(a \div 2, b \div 2, n - 1)

\* a | b and a ^ b on u64
U64Or(a, b) == [i \in 1..8 |-> OrBits(a[i], b[i], 8)]
U64Xor(a, b) == [i \in 1..8 |-> XorBits(a[i], b[i], 8)]

\* TVal(i) << cnt for a 7-bit i: bits shifted past bit 63 are dropped.  The
\* count stays below 64 for every encoding of at most 10 bytes, which is all
\* that Base128Int::put produces; a shift by 64 or more is reduced modulo 64.
U64Shl7(i, cnt) ==
    LET c == cnt % 64
    IN  [j \in 1..8 |->
            LET lo == 8 * (j - 1)     \* the lowest bit of byte j
            IN  IF c >= lo + 8 THEN 0
                ELSE IF c >= lo THEN (i * 2 ^ (c - lo)) % 256
                ELSE IF lo - c >= 7 THEN 0
                ELSE (i \div 2 ^ (lo - c)) % 256]

-----------------------------------------------------------------------------
(* Independent measures used to state the claims *)

RECURSIVE BitLenByte(_)
BitLenByte(b) == IF b = 0 THEN 0 ELSE 1 + BitLenByte(b \div 2)

RECURSIVE BitLenFrom(_, _)
BitLenFrom(v, i) ==
    IF i = 0 THEN 0
    ELSE IF v[i] # 0 THEN 8 * (i - 1) + BitLenByte(v[i])
    ELSE BitLenFrom(v, i - 1)

\* the number of significant bits of v (0 for v = 0)
BitLen(v) == BitLenFrom(v, 8)

\* max(1, ceil(bitlen(v) / 7))
EncLen(v) == IF BitLen(v) = 0 THEN 1 ELSE (BitLen(v) + 6) \div 7

RECURSIVE SumEncLen(_)
SumEncLen(vs) == IF vs = <<>> THEN 0 ELSE EncLen(Head(vs)) + SumEncLen(Tail(vs))

-----------------------------------------------------------------------------
(* Base128Int<u64>: one base-128 encoded integer *)

U64One == <<1, 0, 0, 0, 0, 0, 0, 0>>

RECURSIVE Base128Int_put_loop(_, _, _, _, _)
Base128Int_put_loop(value, mem, p, begin, end) ==
    IF p = end THEN [p |-> begin, mem |-> mem]
    ELSE LET low == U64Low7(value)
             rest == U64Shr7(value)
         IN  IF rest # U64Zero
             THEN Base128Int_put_loop(rest, [mem EXCEPT ![p + 1] = low + 128],
                                      p + 1, begin, end)
             ELSE [p |-> p + 1, mem |-> [mem EXCEPT ![p + 1] = low]]

\* Base128Int::put: the position after the encoding (begin on error) and the
\* memory, which keeps the bytes stored before the loop ran out of room
Base128Int_put(value_, mem, begin, end) ==
    IF begin >= end THEN [p |-> begin, mem |-> mem]
    ELSE Base128Int_put_loop(value_, mem, begin, begin, end)

RECURSIVE Base128Int_get_loop(_, _, _, _, _, _)
Base128Int_get_loop(mem, acc, cnt, p, begin, end) ==
    IF p = end THEN [p |-> begin, value_ |-> U64Zero]
    ELSE LET i == mem[p + 1] % 128
             acc2 == U64Or(acc, U64Shl7(i, cnt))
         IN  IF mem[p + 1] < 128
             THEN [p |-> p + 1, value_ |-> acc2]
             ELSE Base128Int_get_loop(mem, acc2, cnt + 7, p + 1, begin, end)

RECURSIVE Base128Int_get_loop_step8(_, _, _, _, _, _)
Base128Int_get_loop_step8(mem, acc, cnt, p, begin, end) ==
    IF p = end THEN [p |-> begin, value_ |-> U64Zero]
    ELSE LET i == mem[p + 1] % 128
             acc2 == U64Or(acc, U64Shl7(i, cnt))
         IN  IF mem[p + 1] < 128
             THEN [p |-> p + 1, value_ |-> acc2]
             ELSE Base128Int_get_loop_step8(mem, acc2, cnt + 8, p + 1, begin, end)

\* Base128Int::get as it would be with cnt += 8
Base128Int_get_step8(mem, begin, end) ==
    Base128Int_get_loop_step8(mem, U64Zero, 0, begin, begin, end)

RECURSIVE Base128Int_get_loop_partial(_, _, _, _, _, _)
Base128Int_get_loop_partial(mem, acc, cnt, p, begin, end) ==
    IF p = end THEN [p |-> p, value_ |-> acc]
    ELSE LET i == mem[p + 1] % 128
             acc2 == U64Or(acc, U64Shl7(i, cnt))
         IN  IF mem[p + 1] < 128
             THEN [p |-> p + 1, value_ |-> acc2]
             ELSE Base128Int_get_loop_partial(mem, acc2, cnt + 7, p + 1, begin, end)

\* Base128Int::get as it would be if it kept what it had read at the end
Base128Int_get_partial(mem, begin, end) ==
    Base128Int_get_loop_partial(mem, U64Zero, 0, begin, begin, end)

\* Base128Int::get on a default-constructed Base128Int (value_ = 0): the
\* position after the encoding (begin on error) and value_
Base128Int_get(mem, begin, end) == Base128Int_get_loop(mem, U64Zero, 0, begin, begin, end)

-----------------------------------------------------------------------------
(* Base128StreamWriter *)

\* Base128StreamWriter(begin, end) over a buffer with the given content
Base128StreamWriter(mem) == [mem |-> mem, pos_ |-> 0, end_ |-> Len(mem)]

Base128StreamWriter_put(s, value) ==
    LET r == Base128Int_put(value, s.mem, s.pos_, s.end_)
    IN  IF s.pos_ = r.p
        THEN [ok |-> FALSE, s |-> [s EXCEPT !.mem = r.mem]]
        ELSE [ok |-> TRUE, s |-> [s EXCEPT !.mem = r.mem, !.pos_ = r.p]]

RECURSIVE Base128StreamWriter_tput_loop(_, _, _, _)
Base128StreamWriter_tput_loop(s, iter, i, oldpos) ==
    IF i > Len(iter) THEN [ok |-> TRUE, s |-> s]
    ELSE LET r == Base128StreamWriter_put(s, iter[i])
         IN  IF ~r.ok
             THEN [ok |-> FALSE, s |-> [r.s EXCEPT !.pos_ = oldpos]]
             ELSE Base128StreamWriter_tput_loop(r.s, iter, i + 1, oldpos)

RECURSIVE Base128StreamWriter_tput_loop_keep(_, _, _)
Base128StreamWriter_tput_loop_keep(s, iter, i) ==
    IF i > Len(iter) THEN [ok |-> TRUE, s |-> s]
    ELSE LET r == Base128StreamWriter_put(s, iter[i])
         IN  IF ~r.ok THEN [ok |-> FALSE, s |-> r.s]
             ELSE Base128StreamWriter_tput_loop_keep(r.s, iter, i + 1)

\* Base128StreamWriter::tput as it would be without restoring pos_
Base128StreamWriter_tput_keep(s, iter) == Base128StreamWriter_tput_loop_keep(s, iter, 1)

Base128StreamWriter_tput(s, iter) == Base128StreamWriter_tput_loop(s, iter, 1, s.pos_)

RECURSIVE StoreBytes(_, _, _)
StoreBytes(mem, at, bytes) ==
    IF bytes = <<>> THEN mem
    ELSE StoreBytes([mem EXCEPT ![at + 1] = Head(bytes)], at + 1, Tail(bytes))

\* put_raw as it would be without the check of the space left
Base128StreamWriter_put_raw_unchecked(s, value) ==
    [ok |-> TRUE,
     s |-> [s EXCEPT !.mem = StoreBytes(s.mem, s.pos_, value),
                     !.pos_ = s.pos_ + Len(value)]]

\* put_raw<TVal>: value is the little-endian byte image of the TVal
Base128StreamWriter_put_raw(s, value) ==
    IF s.end_ - s.pos_ < Len(value)
    THEN [ok |-> FALSE, s |-> s]
    ELSE [ok |-> TRUE,
          s |-> [s EXCEPT !.mem = StoreBytes(s.mem, s.pos_, value),
                          !.pos_ = s.pos_ + Len(value)]]

\* allocate as it would be without pos_ += sz
Base128StreamWriter_allocate_inplace(s, sz) ==
    IF s.end_ - s.pos_ < sz
    THEN [ptr |-> -1, s |-> s]
    ELSE [ptr |-> s.pos_, s |-> s]

\* allocate<T>: sz is sizeof(T); ptr is the offset of the slot, -1 for nullptr
Base128StreamWriter_allocate(s, sz) ==
    IF s.end_ - s.pos_ < sz
    THEN [ptr |-> -1, s |-> s]
    ELSE [ptr |-> s.pos_, s |-> [s EXCEPT !.pos_ = s.pos_ + sz]]

Base128StreamWriter_size(s) == s.pos_

Base128StreamWriter_space_left(s) == s.end_ - s.pos_

-----------------------------------------------------------------------------
(* Base128StreamReader: [pos_, end_] over the memory mem *)

Base128StreamReader(begin, end) == [pos_ |-> begin, end_ |-> end]

\* next<u64>: ok = FALSE stands for the exception AKU_PANIC throws
Base128StreamReader_next(r, mem) ==
    LET g == Base128Int_get(mem, r.pos_, r.end_)
    IN  IF g.p = r.pos_
        THEN [ok |-> FALSE, r |-> r, value |-> U64Zero]
        ELSE [ok |-> TRUE, r |-> [r EXCEPT !.pos_ = g.p], value |-> g.value_]

\* read_raw as it would be without pos_ += sz
Base128StreamReader_read_raw_peek(r, mem, sz) ==
    IF r.end_ - r.pos_ < sz
    THEN [ok |-> FALSE, r |-> r, value |-> <<>>]
    ELSE [ok |-> TRUE, r |-> r, value |-> [k \in 1..sz |-> mem[r.pos_ + k]]]

\* read_raw<TVal> of sz bytes: the little-endian byte image of the value
Base128StreamReader_read_raw(r, mem, sz) ==
    IF r.end_ - r.pos_ < sz
    THEN [ok |-> FALSE, r |-> r, value |-> <<>>]
    ELSE [ok |-> TRUE, r |-> [r EXCEPT !.pos_ = r.pos_ + sz],
          value |-> [k \in 1..sz |-> mem[r.pos_ + k]]]

-----------------------------------------------------------------------------
(* RLEStreamWriter<u64> and RLEStreamReader<u64>: [prev_, reps_] *)

RLEStreamWriter == [prev_ |-> U64Zero, reps_ |-> U64Zero]

\* the loop of RLEStreamWriter::tput: w is [prev_, reps_], outbuf the pairs so far
RECURSIVE RLEStreamWriter_tput_loop(_, _, _, _)
RLEStreamWriter_tput_loop(w, iter, i, outbuf) ==
    IF i > Len(iter) THEN [w |-> w, outbuf |-> outbuf]
    ELSE LET value == iter[i]
             flush == value # w.prev_ /\ w.reps_ # U64Zero
             out2 == IF flush THEN outbuf \o <<w.reps_, w.prev_>> ELSE outbuf
             w2 == IF value # w.prev_
                   THEN [prev_ |-> value, reps_ |-> U64Zero]
                   ELSE w
         IN  RLEStreamWriter_tput_loop([w2 EXCEPT !.reps_ = U64Add(w2.reps_, U64One)],
                                       iter, i + 1, out2)

\* tput as it would be without the pair of the run that is pending at the end
RLEStreamWriter_tput_nofinal(w, s, iter) ==
    LET Written(r) ==
            [ok |-> r.ok, w |-> [prev_ |-> U64Zero, reps_ |-> U64Zero], s |-> r.s]
        Pairs(l) == Written(Base128StreamWriter_tput(s, l.outbuf))
    IN  Pairs(RLEStreamWriter_tput_loop(w, iter, 1, <<>>))

RLEStreamWriter_tput(w, s, iter) ==
    LET Written(r) ==
            [ok |-> r.ok, w |-> [prev_ |-> U64Zero, reps_ |-> U64Zero], s |-> r.s]
        Pairs(l) ==
            Written(Base128StreamWriter_tput(s, IF Len(l.outbuf) < Len(iter) * 2
                                                THEN l.outbuf \o <<l.w.reps_, l.w.prev_>>
                                                ELSE l.outbuf))
    IN  Pairs(RLEStreamWriter_tput_loop(w, iter, 1, <<>>))

RLEStreamReader == [prev_ |-> U64Zero, reps_ |-> U64Zero]

RLEStreamReader_next(rle, r, mem) ==
    IF rle.reps_ = U64Zero
    THEN LET Pair(a, b) ==
                 IF ~a.ok THEN [ok |-> FALSE, rle |-> rle, r |-> r, value |-> U64Zero]
                 ELSE IF ~b.ok
                 THEN [ok |-> FALSE, rle |-> [rle EXCEPT !.reps_ = a.value],
                       r |-> a.r, value |-> U64Zero]
                 ELSE [ok |-> TRUE,
                       rle |-> [prev_ |-> b.value, reps_ |-> U64Sub(a.value, U64One)],
                       r |-> b.r, value |-> b.value]
             Reps(a) == Pair(a, Base128StreamReader_next(a.r, mem))
         IN  Reps(Base128StreamReader_next(r, mem))
    ELSE [ok |-> TRUE, rle |-> [rle EXCEPT !.reps_ = U64Sub(rle.reps_, U64One)],
          r |-> r, value |-> rle.prev_]

-----------------------------------------------------------------------------
(* DeltaStreamWriter<RLEStreamWriter<u64>, u64> (DeltaRLEWriter) and its     *)
(* reader: [prev_, stream_] with stream_ the RLE layer                       *)

DeltaRLEWriter == [prev_ |-> U64Zero, stream_ |-> RLEStreamWriter]

RECURSIVE DeltaStreamWriter_tput_loop(_, _, _, _)
DeltaStreamWriter_tput_loop(prev, iter, i, outbuf) ==
    IF i > Len(iter) THEN [prev_ |-> prev, outbuf |-> outbuf]
    ELSE DeltaStreamWriter_tput_loop(iter[i], iter, i + 1,
                                     Append(outbuf, U64Sub(iter[i], prev)))

\* DeltaStreamWriter::tput as it would be if prev_ were not carried on
DeltaStreamWriter_tput_noprev(d, s, iter) ==
    LET Written(l, r) ==
            [ok |-> r.ok, d |-> [prev_ |-> d.prev_, stream_ |-> r.w], s |-> r.s]
        Deltas(l) == Written(l, RLEStreamWriter_tput(d.stream_, s, l.outbuf))
    IN  Deltas(DeltaStreamWriter_tput_loop(d.prev_, iter, 1, <<>>))

\* DeltaStreamWriter::tput: d is the writer, s the Base128StreamWriter below it
DeltaStreamWriter_tput(d, s, iter) ==
    LET Written(l, r) ==
            [ok |-> r.ok, d |-> [prev_ |-> l.prev_, stream_ |-> r.w], s |-> r.s]
        Deltas(l) == Written(l, RLEStreamWriter_tput(d.stream_, s, l.outbuf))
    IN  Deltas(DeltaStreamWriter_tput_loop(d.prev_, iter, 1, <<>>))

DeltaRLEReader == [prev_ |-> U64Zero, stream_ |-> RLEStreamReader]

\* DeltaStreamReader::next as it would be if it returned the delta itself
DeltaStreamReader_next_nosum(d, r, mem) ==
    LET Delta(n) ==
            IF ~n.ok
            THEN [ok |-> FALSE, d |-> [d EXCEPT !.stream_ = n.rle], r |-> n.r,
                  value |-> U64Zero]
            ELSE [ok |-> TRUE, d |-> [prev_ |-> n.value, stream_ |-> n.rle],
                  r |-> n.r, value |-> n.value]
    IN  Delta(RLEStreamReader_next(d.stream_, r, mem))

\* DeltaStreamReader::next
DeltaStreamReader_next(d, r, mem) ==
    LET Sum(n, value) ==
            IF ~n.ok
            THEN [ok |-> FALSE, d |-> [d EXCEPT !.stream_ = n.rle], r |-> n.r,
                  value |-> U64Zero]
            ELSE [ok |-> TRUE, d |-> [prev_ |-> value, stream_ |-> n.rle], r |-> n.r,
                  value |-> value]
        Delta(n) == Sum(n, U64Add(d.prev_, n.value))
    IN  Delta(RLEStreamReader_next(d.stream_, r, mem))

-----------------------------------------------------------------------------
(* i64 (TVal of the zig-zag stack, lines 643-650) as two's complement on the *)
(* same 8-byte tuples.  Right shifts of a signed value are arithmetic, as    *)
(* gcc, clang and msvc define them; a left shift drops the bits shifted out. *)

I64Min == U64Pow2(63)
I64Max == U64Pow2m1(63)

\* value << 1
I64Shl1(v) == U64Add(v, v)

\* value >> 1, value >> 7 and value >> 63 with the sign bit shifted in
I64Sar1(v) ==
    [i \in 1..8 |-> (v[i] \div 2) + (IF i < 8 THEN (v[i + 1] % 2) * 128
                                     ELSE IF v[8] >= 128 THEN 128 ELSE 0)]
I64Sar7(v) ==
    [i \in 1..8 |-> (v[i] \div 128) + (IF i < 8 THEN (v[i + 1] % 128) * 2
                                       ELSE IF v[8] >= 128 THEN 254 ELSE 0)]
I64Sar63(v) == IF v[8] >= 128 THEN U64Max ELSE U64Zero

\* the loop of Base128Int<i64>::put: value >>= 7 keeps the sign, so a negative
\* value never becomes 0 and the loop runs into the end of the buffer
RECURSIVE Base128Int_i64_put_loop(_, _, _, _, _)
Base128Int_i64_put_loop(value, mem, p, begin, end) ==
    IF p = end THEN [p |-> begin, mem |-> mem]
    ELSE LET Store(low, rest) ==
                 IF rest # U64Zero
                 THEN Base128Int_i64_put_loop(rest, [mem EXCEPT ![p + 1] = low + 128],
                                              p + 1, begin, end)
                 ELSE [p |-> p + 1, mem |-> [mem EXCEPT ![p + 1] = low]]
         IN  Store(U64Low7(value), I64Sar7(value))

\* Base128Int<i64>::put
Base128Int_i64_put(value_, mem, begin, end) ==
    IF begin >= end THEN [p |-> begin, mem |-> mem]
    ELSE Base128Int_i64_put_loop(value_, mem, begin, begin, end)

\* Base128StreamWriter::put<TVal> for TVal "u64" or "i64"
Base128StreamWriter_put_T(TVal, s, value) ==
    IF TVal = "i64"
    THEN LET Moved(r) ==
                 IF s.pos_ = r.p
                 THEN [ok |-> FALSE, s |-> [s EXCEPT !.mem = r.mem]]
                 ELSE [ok |-> TRUE, s |-> [s EXCEPT !.mem = r.mem, !.pos_ = r.p]]
         IN  Moved(Base128Int_i64_put(value, s.mem, s.pos_, s.end_))
    ELSE Base128StreamWriter_put(s, value)

-----------------------------------------------------------------------------
(* RLEStreamWriter<TVal>::put and commit, value by value *)

\* put as it would be if a differing value did not write the pending pair
RLEStreamWriter_put_noflush(TVal, w, s, value) ==
    IF value # w.prev_
    THEN [ok |-> TRUE, w |-> [prev_ |-> value, reps_ |-> U64One], s |-> s]
    ELSE [ok |-> TRUE, w |-> [w EXCEPT !.reps_ = U64Add(@, U64One)], s |-> s]

\* RLEStreamWriter::put: a failed stream_.put returns false at once, with
\* prev_ and reps_ as they were
RLEStreamWriter_put(TVal, w, s, value) ==
    IF value # w.prev_
    THEN IF w.reps_ # U64Zero
         THEN LET Second(a, b) ==
                      IF ~a.ok THEN [ok |-> FALSE, w |-> w, s |-> a.s]
                      ELSE IF ~b.ok THEN [ok |-> FALSE, w |-> w, s |-> b.s]
                      ELSE [ok |-> TRUE, w |-> [prev_ |-> value, reps_ |-> U64One],
                            s |-> b.s]
                  First(a) == Second(a, Base128StreamWriter_put_T(TVal, a.s, w.prev_))
              IN  First(Base128StreamWriter_put_T(TVal, s, w.reps_))
         ELSE [ok |-> TRUE, w |-> [prev_ |-> value, reps_ |-> U64One], s |-> s]
    ELSE [ok |-> TRUE, w |-> [w EXCEPT !.reps_ = U64Add(@, U64One)], s |-> s]

\* RLEStreamWriter::commit: stream_.put(reps_) && stream_.put(prev_)
RLEStreamWriter_commit(TVal, w, s) ==
    LET Second(a, b) ==
            IF ~a.ok THEN [ok |-> FALSE, w |-> w, s |-> a.s]
            ELSE [ok |-> b.ok, w |-> w, s |-> b.s]
        First(a) == Second(a, Base128StreamWriter_put_T(TVal, a.s, w.prev_))
    IN  First(Base128StreamWriter_put_T(TVal, s, w.reps_))

-----------------------------------------------------------------------------
(* ZigZagStreamWriter<__RLEWriter, i64> and ZigZagStreamReader<__RLEReader,  *)
(* i64>                                                                      *)

\* res = (value << 1) ^ (value >> shift_width)
ZigZagStreamWriter_res(value) == U64Xor(I64Shl1(value), I64Sar63(value))

\* ZigZagStreamWriter::put: w is the RLE writer below, s the byte stream
ZigZagStreamWriter_put(w, s, value) ==
    RLEStreamWriter_put("i64", w, s, ZigZagStreamWriter_res(value))

\* (n >> 1) ^ (-(n & 1)) on the i64 n that stream_.next() returned
ZigZagStreamReader_value(n) ==
    U64Xor(I64Sar1(n), U64Sub(U64Zero, [U64Zero EXCEPT ![1] = n[1] % 2]))

\* ZigZagStreamReader::next: rle is the RLE reader below, r the byte reader
ZigZagStreamReader_next(rle, r, mem) ==
    LET Value(n) ==
            [ok |-> n.ok, rle |-> n.rle, r |-> n.r, n |-> n.value,
             value |-> IF n.ok THEN ZigZagStreamReader_value(n.value) ELSE U64Zero]
    IN  Value(RLEStreamReader_next(rle, r, mem))

-----------------------------------------------------------------------------
(* FcmPredictor, FcmStreamWriter and FcmStreamReader.  compression.h declares *)
(* them (lines 506-563); their bodies are in compression.cpp, so they are    *)
(* modelled from the specification's section 4.3.  A double is its 64-bit    *)
(* pattern.  The predictor's table is kept as a function on the indices      *)
(* written so far; every other entry holds its initial zero.                 *)

\* the number of entries of the predictor's table (a power of two)
PredictorTableSize == 128

FcmPredictor == [table |-> <<>>, last_hash |-> 0]

FcmPredictor_predict_next(p) ==
    IF p.last_hash \in DOMAIN p.table THEN p.table[p.last_hash] ELSE U64Zero

\* table[last_hash] = value; last_hash = ((last_hash << 6) ^ (value >> 48)) & mask
FcmPredictor_update(p, value) ==
    [table |-> [h \in (DOMAIN p.table) \cup {p.last_hash} |->
                   IF h = p.last_hash THEN value ELSE p.table[h]],
     last_hash |-> XorBits(p.last_hash * 64, value[7] + 256 * value[8], 16)
                   % PredictorTableSize]

RECURSIVE LeadingZeroBytesFrom(_, _)
LeadingZeroBytesFrom(x, i) ==
    IF i = 0 THEN 8 ELSE IF x[i] # 0 THEN 8 - i ELSE LeadingZeroBytesFrom(x, i - 1)

\* the number of leading (most significant) zero bytes of x, 0..8
LeadingZeroBytes(x) == LeadingZeroBytesFrom(x, 8)

\* the 8 - flag significant (low-order) bytes of diff, little-endian
SignificantBytes(diff, flag) == [k \in 1..(8 - flag) |-> diff[k]]

\* the u64 whose low-order bytes are the given ones
FromSignificantBytes(bytes) ==
    [k \in 1..8 |-> IF k <= Len(bytes) THEN bytes[k] ELSE 0]

FcmStreamWriter ==
    [predictor_ |-> FcmPredictor, prev_diff_ |-> U64Zero, prev_flag_ |-> 0,
     nelements_ |-> 0]

\* the flag byte of a pair followed by the significant bytes of both values
FcmWritePair(s, flag1, diff1, flag2, diff2) ==
    LET a == Base128StreamWriter_put_raw(s, <<flag1 * 16 + flag2>>)
        b == Base128StreamWriter_put_raw(a.s, SignificantBytes(diff1, flag1))
        c == Base128StreamWriter_put_raw(b.s, SignificantBytes(diff2, flag2))
    IN  [ok |-> a.ok /\ b.ok /\ c.ok, s |-> c.s]

\* FcmStreamWriter::put: w is the writer, s the Base128StreamWriter below it
FcmStreamWriter_put(w, s, value) ==
    LET diff == U64Xor(value, FcmPredictor_predict_next(w.predictor_))
        flag == LeadingZeroBytes(diff)
        w2 == [predictor_ |-> FcmPredictor_update(w.predictor_, value),
               prev_diff_ |-> diff, prev_flag_ |-> flag,
               nelements_ |-> w.nelements_ + 1]
    IN  IF w.nelements_ % 2 = 0
        THEN [ok |-> TRUE, w |-> w2, s |-> s]
        ELSE LET r == FcmWritePair(s, w.prev_flag_, w.prev_diff_, flag, diff)
             IN  [ok |-> r.ok, w |-> w2, s |-> r.s]

RECURSIVE FcmStreamWriter_tput_loop(_, _, _, _)
FcmStreamWriter_tput_loop(w, s, values, i) ==
    IF i > Len(values) THEN [ok |-> TRUE, w |-> w, s |-> s]
    ELSE LET r == FcmStreamWriter_put(w, s, values[i])
         IN  IF ~r.ok THEN r ELSE FcmStreamWriter_tput_loop(r.w, r.s, values, i + 1)

\* FcmStreamWriter::tput
FcmStreamWriter_tput(w, s, values) == FcmStreamWriter_tput_loop(w, s, values, 1)

\* FcmStreamWriter::commit: a pending first of a pair goes out with a zero
\* low nibble
FcmStreamWriter_commit(w, s) ==
    IF w.nelements_ % 2 = 1
    THEN LET a == Base128StreamWriter_put_raw(s, <<w.prev_flag_ * 16>>)
             b == Base128StreamWriter_put_raw(a.s,
                                              SignificantBytes(w.prev_diff_, w.prev_flag_))
         IN  [ok |-> a.ok /\ b.ok, s |-> b.s]
    ELSE [ok |-> TRUE, s |-> s]

FcmStreamReader == [predictor_ |-> FcmPredictor, flags_ |-> 0, iter_ |-> 0]

\* FcmStreamReader::next: f is the reader, r the Base128StreamReader below it;
\* ok = FALSE for a truncated stream or a flag nibble above 8
FcmStreamReader_next(f, r, mem) ==
    LET a == IF f.iter_ % 2 = 0
             THEN Base128StreamReader_read_raw(r, mem, 1)
             ELSE [ok |-> TRUE, r |-> r, value |-> <<f.flags_>>]
        flags == IF a.ok THEN a.value[1] ELSE 0
        flag == IF f.iter_ % 2 = 0 THEN flags \div 16 ELSE flags % 16
        b == IF a.ok /\ flag <= 8
             THEN Base128StreamReader_read_raw(a.r, mem, 8 - flag)
             ELSE [ok |-> FALSE, r |-> a.r, value |-> <<>>]
        value == U64Xor(FromSignificantBytes(b.value),
                        FcmPredictor_predict_next(f.predictor_))
    IN  IF ~b.ok
        THEN [ok |-> FALSE, f |-> f, r |-> r, value |-> U64Zero]
        ELSE [ok |-> TRUE,
              f |-> [predictor_ |-> FcmPredictor_update(f.predictor_, value),
                     flags_ |-> flags, iter_ |-> f.iter_ + 1],
              r |-> b.r, value |-> value]

-----------------------------------------------------------------------------
(* DataBlockWriter.  compression.h declares its fields and operations (lines *)
(* 660-703); the bodies are in compression.cpp, so the operations are        *)
(* modelled from the specification's sections 3 and 4.4 on top of the        *)
(* streams above.  A writer is the record of its fields: w.stream_,          *)
(* w.ts_stream_, w.val_stream_, w.write_index_, w.ts_writebuf_,              *)
(* w.val_writebuf_ (the samples buffered since the last flush), w.nchunks_,  *)
(* w.ntail_, and w.lifecycle.                                                *)

CHUNK_SIZE == 16
CHUNK_MASK == 15
HEADER_SIZE == 14

\* the version the writer stamps and the reader accepts
AKUMULI_VERSION == 1

\* the worst-case size of a chunk that room_for_chunk asks for:
\* 16 * 10 + 16 * 9 + 8 bytes
RoomForChunkMargin == 312

SUCCESS == "SUCCESS"
OVERFLOW == "OVERFLOW"
STATE_ERROR == "STATE_ERROR"
NO_DATA == "NO_DATA"
CORRUPT == "CORRUPT"

\* a 16-bit field, little-endian
U16Bytes(n) == <<n % 256, n \div 256>>
U16At(mem, ptr) == mem[ptr + 1] + 256 * mem[ptr + 2]

\* DataBlockWriter(id, buf, size): the header goes in with put_raw and
\* allocate; a buffer the header does not fit in leaves an unwritable object
DataBlockWriter_ctor(id, mem) ==
    LET s0 == Base128StreamWriter(mem)
        v == Base128StreamWriter_put_raw(s0, U16Bytes(AKUMULI_VERSION))
        n == Base128StreamWriter_allocate(v.s, 2)
        t == Base128StreamWriter_allocate(n.s, 2)
        i == Base128StreamWriter_put_raw(t.s, id)
        ok == v.ok /\ n.ptr # -1 /\ t.ptr # -1 /\ i.ok
        zeroed == IF ok
                  THEN StoreBytes(StoreBytes(i.s.mem, n.ptr, U16Bytes(0)),
                                  t.ptr, U16Bytes(0))
                  ELSE i.s.mem
    IN  [stream_ |-> [i.s EXCEPT !.mem = zeroed],
         ts_stream_ |-> DeltaRLEWriter,
         val_stream_ |-> FcmStreamWriter,
         write_index_ |-> 0,
         ts_writebuf_ |-> <<>>,
         val_writebuf_ |-> <<>>,
         nchunks_ |-> n.ptr,
         ntail_ |-> t.ptr,
         lifecycle |-> IF ok THEN "open" ELSE "unwritable"]

\* room_for_chunk as it would be if the bound left out the flag bytes
DataBlockWriter_room_for_chunk_noflags(w) ==
    Base128StreamWriter_space_left(w.stream_) >= RoomForChunkMargin - CHUNK_SIZE \div 2

\* room_for_chunk()
DataBlockWriter_room_for_chunk(w) ==
    Base128StreamWriter_space_left(w.stream_) >= RoomForChunkMargin

\* the flush of a full chunk: the timestamps through ts_stream_, then the
\* values through val_stream_, then nchunks += 1
DataBlockWriter_flush(w, timestamps, values) ==
    LET Count(t, v, n) ==
            IF t.ok /\ v.ok
            THEN [ok |-> TRUE,
                  w |-> [w EXCEPT !.stream_ = [v.s EXCEPT
                                      !.mem = StoreBytes(v.s.mem, w.nchunks_,
                                                         U16Bytes(n))],
                                  !.ts_stream_ = t.d,
                                  !.val_stream_ = v.w,
                                  !.ts_writebuf_ = <<>>,
                                  !.val_writebuf_ = <<>>,
                                  !.write_index_ = w.write_index_ + 1]]
            ELSE [ok |-> FALSE, w |-> w]
        Values(t, v) == Count(t, v, U16At(v.s.mem, w.nchunks_) + 1)
        Timestamps(t) == Values(t, FcmStreamWriter_tput(w.val_stream_, t.s, values))
    IN  Timestamps(DeltaStreamWriter_tput(w.ts_stream_, w.stream_, timestamps))

\* put as it would be if it buffered the sample before looking for room
DataBlockWriter_put_consuming(w, ts, value) ==
    LET w2 == [w EXCEPT !.ts_writebuf_ = Append(@, ts),
                        !.val_writebuf_ = Append(@, value),
                        !.write_index_ = @ + 1]
    IN  IF w.lifecycle # "open"
        THEN [status |-> STATE_ERROR, w |-> w]
        ELSE IF (w.write_index_ + 1) % CHUNK_SIZE # 0
        THEN [status |-> SUCCESS, w |-> w2]
        ELSE IF ~DataBlockWriter_room_for_chunk(w)
        THEN [status |-> OVERFLOW, w |-> [w2 EXCEPT !.ts_writebuf_ = <<>>,
                                                    !.val_writebuf_ = <<>>]]
        ELSE LET Flushed(f) == [status |-> IF f.ok THEN SUCCESS ELSE OVERFLOW, w |-> f.w]
             IN  Flushed(DataBlockWriter_flush(w, Append(w.ts_writebuf_, ts),
                                               Append(w.val_writebuf_, value)))

\* put as it would be if a refused chunk were dropped to make room
DataBlockWriter_put_dropping(w, ts, value) ==
    IF w.lifecycle # "open"
    THEN [status |-> STATE_ERROR, w |-> w]
    ELSE IF (w.write_index_ + 1) % CHUNK_SIZE # 0
    THEN [status |-> SUCCESS,
          w |-> [w EXCEPT !.ts_writebuf_ = Append(@, ts),
                          !.val_writebuf_ = Append(@, value),
                          !.write_index_ = @ + 1]]
    ELSE IF ~DataBlockWriter_room_for_chunk(w)
    THEN [status |-> OVERFLOW,
          w |-> [w EXCEPT !.ts_writebuf_ = <<>>, !.val_writebuf_ = <<>>,
                          !.write_index_ = @ - CHUNK_MASK]]
    ELSE LET Flushed(f) == [status |-> IF f.ok THEN SUCCESS ELSE OVERFLOW, w |-> f.w]
         IN  Flushed(DataBlockWriter_flush(w, Append(w.ts_writebuf_, ts),
                                           Append(w.val_writebuf_, value)))

\* put as it would be without the check of the lifecycle
DataBlockWriter_put_unsealed(w, ts, value) ==
    IF (w.write_index_ + 1) % CHUNK_SIZE # 0
    THEN [status |-> SUCCESS,
          w |-> [w EXCEPT !.ts_writebuf_ = Append(@, ts),
                          !.val_writebuf_ = Append(@, value),
                          !.write_index_ = @ + 1]]
    ELSE IF ~DataBlockWriter_room_for_chunk(w)
    THEN [status |-> OVERFLOW, w |-> w]
    ELSE LET Flushed(f) == [status |-> IF f.ok THEN SUCCESS ELSE OVERFLOW, w |-> f.w]
         IN  Flushed(DataBlockWriter_flush(w, Append(w.ts_writebuf_, ts),
                                           Append(w.val_writebuf_, value)))

\* put(ts, value): the status and the writer afterwards
DataBlockWriter_put(w, ts, value) ==
    IF w.lifecycle # "open"
    THEN [status |-> STATE_ERROR, w |-> w]
    ELSE IF (w.write_index_ + 1) % CHUNK_SIZE # 0
    THEN [status |-> SUCCESS,
          w |-> [w EXCEPT !.ts_writebuf_ = Append(@, ts),
                          !.val_writebuf_ = Append(@, value),
                          !.write_index_ = @ + 1]]
    ELSE IF ~DataBlockWriter_room_for_chunk(w)
    THEN [status |-> OVERFLOW, w |-> w]
    ELSE LET Flushed(f) == [status |-> IF f.ok THEN SUCCESS ELSE OVERFLOW, w |-> f.w]
         IN  Flushed(DataBlockWriter_flush(w, Append(w.ts_writebuf_, ts),
                                           Append(w.val_writebuf_, value)))

\* commit(): nchunks and ntail go into their header slots; the byte count used
DataBlockWriter_commit(w) ==
    LET nchunks == w.write_index_ \div CHUNK_SIZE
        ntail == w.write_index_ % CHUNK_SIZE
        mem == StoreBytes(StoreBytes(w.stream_.mem, w.nchunks_, U16Bytes(nchunks)),
                          w.ntail_, U16Bytes(ntail))
    IN  [size |-> Base128StreamWriter_size(w.stream_),
         w |-> [w EXCEPT !.stream_ = [w.stream_ EXCEPT !.mem = mem],
                         !.lifecycle = "sealed"]]

\* read_tail_elements(timestamps, values)
DataBlockWriter_read_tail_elements(w) ==
    [timestamps |-> w.ts_writebuf_, values |-> w.val_writebuf_]

\* get_write_index()
DataBlockWriter_get_write_index(w) == w.write_index_

-----------------------------------------------------------------------------
(* DataBlockReader.  Declared at compression.h lines 705-726, modelled from  *)
(* the specification's section 4.5.                                          *)

\* the constructor as it would be without the validation of the header
DataBlockReader_ctor_unchecked(mem, bufsize) ==
    [open |-> TRUE,
     begin_ |-> 0,
     stream_ |-> Base128StreamReader(IF bufsize >= HEADER_SIZE THEN HEADER_SIZE ELSE 0,
                                     bufsize),
     ts_stream_ |-> DeltaRLEReader,
     val_stream_ |-> FcmStreamReader,
     read_buffer_ |-> [i \in 1..CHUNK_SIZE |-> U64Zero],
     read_index_ |-> 0,
     corrupt |-> bufsize < HEADER_SIZE]

\* DataBlockReader(buf, bufsize) over the first bufsize bytes of mem
DataBlockReader_ctor(mem, bufsize) ==
    LET fits == bufsize >= HEADER_SIZE
        version == IF fits THEN U16At(mem, 0) ELSE 0
        nchunks == IF fits THEN U16At(mem, 2) ELSE 0
        ntail == IF fits THEN U16At(mem, 4) ELSE 0
    IN  [open |-> TRUE,
         begin_ |-> 0,
         stream_ |-> Base128StreamReader(IF fits THEN HEADER_SIZE ELSE 0, bufsize),
         ts_stream_ |-> DeltaRLEReader,
         val_stream_ |-> FcmStreamReader,
         read_buffer_ |-> [i \in 1..CHUNK_SIZE |-> U64Zero],
         read_index_ |-> 0,
         corrupt |-> ~fits \/ version # AKUMULI_VERSION \/ ntail > CHUNK_MASK]

\* nelements(): nchunks * 16
DataBlockReader_nelements(rd, mem) == U16At(mem, 2) * CHUNK_SIZE

\* version() and get_id()
DataBlockReader_version(rd, mem) == U16At(mem, 0)
DataBlockReader_get_id(rd, mem) == [k \in 1..8 |-> mem[6 + k]]

RECURSIVE DataBlockReader_fill(_, _, _, _, _)
\* the timestamps of the next chunk into read_buffer_
DataBlockReader_fill(d, r, mem, buffer, i) ==
    IF i > CHUNK_SIZE THEN [ok |-> TRUE, d |-> d, r |-> r, buffer |-> buffer]
    ELSE LET Got(n) ==
                 IF ~n.ok THEN [ok |-> FALSE, d |-> n.d, r |-> n.r, buffer |-> buffer]
                 ELSE DataBlockReader_fill(n.d, n.r, mem,
                                           [buffer EXCEPT ![i] = n.value], i + 1)
         IN  Got(DeltaStreamReader_next(d, r, mem))

\* next as it would be if an exhausted reader started over
DataBlockReader_next_rewind(rd, mem) ==
    IF rd.corrupt
    THEN [status |-> CORRUPT, ts |-> U64Zero, value |-> U64Zero, rd |-> rd]
    ELSE IF rd.read_index_ >= DataBlockReader_nelements(rd, mem)
    THEN [status |-> NO_DATA, ts |-> U64Zero, value |-> U64Zero,
          rd |-> [rd EXCEPT !.read_index_ = 0,
                            !.stream_ = Base128StreamReader(HEADER_SIZE,
                                                            rd.stream_.end_),
                            !.ts_stream_ = DeltaRLEReader,
                            !.val_stream_ = FcmStreamReader]]
    ELSE LET chunk_index == rd.read_index_ % CHUNK_SIZE
             Sample(t, v) ==
                 IF ~t.ok \/ ~v.ok
                 THEN [status |-> CORRUPT, ts |-> U64Zero, value |-> U64Zero,
                       rd |-> [rd EXCEPT !.corrupt = TRUE]]
                 ELSE [status |-> SUCCESS, ts |-> t.buffer[chunk_index + 1],
                       value |-> v.value,
                       rd |-> [rd EXCEPT !.stream_ = v.r, !.ts_stream_ = t.d,
                                         !.val_stream_ = v.f,
                                         !.read_buffer_ = t.buffer,
                                         !.read_index_ = @ + 1]]
             Values(t) == Sample(t, FcmStreamReader_next(rd.val_stream_, t.r, mem))
         IN  Values(IF chunk_index = 0
                    THEN DataBlockReader_fill(rd.ts_stream_, rd.stream_, mem,
                                              rd.read_buffer_, 1)
                    ELSE [ok |-> TRUE, d |-> rd.ts_stream_, r |-> rd.stream_,
                          buffer |-> rd.read_buffer_])

\* next(): the status, the sample and the reader afterwards
DataBlockReader_next(rd, mem) ==
    IF rd.corrupt
    THEN [status |-> CORRUPT, ts |-> U64Zero, value |-> U64Zero, rd |-> rd]
    ELSE IF rd.read_index_ >= DataBlockReader_nelements(rd, mem)
    THEN [status |-> NO_DATA, ts |-> U64Zero, value |-> U64Zero, rd |-> rd]
    ELSE LET chunk_index == rd.read_index_ % CHUNK_SIZE
             Sample(t, v) ==
                 IF ~t.ok \/ ~v.ok
                 THEN [status |-> CORRUPT, ts |-> U64Zero, value |-> U64Zero,
                       rd |-> [rd EXCEPT !.corrupt = TRUE]]
                 ELSE [status |-> SUCCESS, ts |-> t.buffer[chunk_index + 1],
                       value |-> v.value,
                       rd |-> [rd EXCEPT !.stream_ = v.r, !.ts_stream_ = t.d,
                                         !.val_stream_ = v.f,
                                         !.read_buffer_ = t.buffer,
                                         !.read_index_ = @ + 1]]
             Values(t) == Sample(t, FcmStreamReader_next(rd.val_stream_, t.r, mem))
         IN  Values(IF chunk_index = 0
                    THEN DataBlockReader_fill(rd.ts_stream_, rd.stream_, mem,
                                              rd.read_buffer_, 1)
                    ELSE [ok |-> TRUE, d |-> rd.ts_stream_, r |-> rd.stream_,
                          buffer |-> rd.read_buffer_])

-----------------------------------------------------------------------------
(* Values and buffers the specifications draw their inputs from *)

\* the largest buffer of the VarInt specification
MaxVarIntBuf == 11

\* the longest array handed to Base128StreamWriter::tput
MaxTput == 2

\* u64 values at every length boundary of the encoding, and some in between
U64Samples ==
    {U64Zero, U64One, U64Max, U64FromNat(1000), U64FromNat(300),
     <<239, 205, 171, 137, 103, 69, 35, 1>>}
    \cup {U64Pow2(7 * k) : k \in 1..9}
    \cup {U64Pow2m1(7 * k) : k \in 1..9}
    \cup {U64Pow2(k) : k \in {62, 63}}

\* values of 1, 3 and 10 encoded bytes
U64Few == {U64Zero, U64Pow2(14), U64Max}

RECURSIVE SeqsUpTo(_, _)
SeqsUpTo(S, n) ==
    IF n = 0 THEN {<<>>}
    ELSE LET shorter == SeqsUpTo(S, n - 1)
         IN  shorter \cup {Append(q, x) : q \in {t \in shorter : Len(t) = n - 1}, x \in S}

NoReader == [open |-> FALSE]
NoCall == [op |-> "none"]

\* the fields of a DataBlockWriter the stream specifications leave alone
BlockIdle ==
    /\ val_stream_ = <<>>
    /\ write_index_ = 0
    /\ ts_writebuf_ = <<>>
    /\ val_writebuf_ = <<>>
    /\ nchunks_ = -1
    /\ ntail_ = -1
    /\ lifecycle = "unwritable"

-----------------------------------------------------------------------------
(* SpecVarInt: a Base128StreamWriter over a small buffer, written with put   *)
(* and tput, then read back with a Base128StreamReader over the bytes        *)
(* written                                                                   *)

InitVarInt ==
    /\ \E size \in {2, MaxVarIntBuf}, fill \in {0, 255} :
          stream_ = Base128StreamWriter([i \in 1..size |-> fill])
    /\ ts_stream_ = DeltaRLEWriter
    /\ BlockIdle
    /\ input = <<>>
    /\ reader = NoReader
    /\ accepted = <<>>
    /\ output = <<>>
    /\ last = NoCall

RECURSIVE Extents(_, _)
\* the values vs with the byte ranges their encodings take from offset at on
Extents(vs, at) ==
    IF vs = <<>> THEN <<>>
    ELSE <<[value |-> Head(vs), from |-> at, to |-> at + EncLen(Head(vs))]>>
         \o Extents(Tail(vs), at + EncLen(Head(vs)))

\* stream.put(v)
VarIntPut ==
    /\ ~reader.open
    /\ \E v \in (IF accepted = <<>> THEN U64Samples ELSE U64Few) :
          LET r == Base128StreamWriter_put(stream_, v)
          IN  /\ stream_' = r.s
              /\ accepted' = IF r.ok
                             THEN Append(accepted, [value |-> v, from |-> stream_.pos_,
                                                    to |-> r.s.pos_])
                             ELSE accepted
              /\ last' = [op |-> "put", values |-> <<v>>, ok |-> r.ok,
                          before |-> stream_.pos_, after |-> r.s.pos_]
    /\ UNCHANGED <<ts_stream_, blockVars, reader, input, output>>

\* stream.tput(iter, n)
VarIntTput ==
    /\ ~reader.open
    /\ \E iter \in SeqsUpTo({U64Pow2(14), U64Max}, MaxTput) :
          LET r == Base128StreamWriter_tput(stream_, iter)
          IN  /\ stream_' = r.s
              /\ accepted' = IF r.ok THEN accepted \o Extents(iter, stream_.pos_)
                             ELSE accepted
              /\ last' = [op |-> "tput", values |-> iter, ok |-> r.ok,
                          before |-> stream_.pos_, after |-> r.s.pos_]
    /\ UNCHANGED <<ts_stream_, blockVars, reader, input, output>>

\* Base128StreamReader over the bytes written so far
VarIntOpenReader ==
    /\ ~reader.open
    /\ stream_.pos_ > 0
    /\ reader' = [open |-> TRUE, stream_ |-> Base128StreamReader(0, stream_.pos_)]
    /\ last' = [op |-> "open"]
    /\ UNCHANGED <<stream_, ts_stream_, blockVars, input, accepted, output>>

\* reader.next<u64>()
VarIntNext ==
    /\ reader.open
    /\ reader.stream_.pos_ < reader.stream_.end_
    /\ LET r == Base128StreamReader_next(reader.stream_, stream_.mem)
       IN  /\ reader' = [reader EXCEPT !.stream_ = r.r]
           /\ output' = IF r.ok
                        THEN Append(output, [value |-> r.value,
                                             from |-> reader.stream_.pos_,
                                             to |-> r.r.pos_])
                        ELSE output
           /\ last' = [op |-> "next", ok |-> r.ok]
    /\ UNCHANGED <<stream_, ts_stream_, blockVars, input, accepted>>

NextVarInt == VarIntPut \/ VarIntTput \/ VarIntOpenReader \/ VarIntNext

SpecVarInt == InitVarInt /\ [][NextVarInt]_vars

\* C7: a successful put of u writes exactly max(1, ceil(bitlen(u)/7)) bytes,
\* with the continuation bit 0x80 on all of them but the last (the single byte
\* 0x00 for u = 0), it succeeds exactly when that many bytes are left, and
\* the reader gets back every value written, from the same bytes.
VarIntBijection ==
    /\ last.op = "put" =>
          LET u == last.values[1]
          IN  /\ last.ok <=> stream_.end_ - last.before >= EncLen(u)
              /\ last.ok =>
                    /\ last.after - last.before = EncLen(u)
                    /\ \A k \in (last.before + 1)..last.after :
                          stream_.mem[k] >= 128 <=> k < last.after
                    /\ u = U64Zero => stream_.mem[last.after] = 0
    /\ Len(output) <= Len(accepted)
    /\ \A i \in 1..Len(output) : output[i] = accepted[i]

\* the largest value was written in 10 bytes and read back
VarIntBijectionWitness ==
    /\ Len(output) >= 1
    /\ output[1].value = U64Max
    /\ output[1].to - output[1].from = 10

\* C8: put and tput either succeed with the cursor advanced by the encoded
\* length of all the values, or fail with the cursor where it was.
VarIntAllOrNothing ==
    last.op \in {"put", "tput"} =>
        /\ last.after = stream_.pos_
        /\ IF last.ok
           THEN last.after = last.before + SumEncLen(last.values)
           ELSE last.after = last.before

\* a tput failed on its second value, after the first one had fitted
VarIntAllOrNothingWitness ==
    /\ last.op = "tput"
    /\ ~last.ok
    /\ Len(last.values) = 2
    /\ last.before > 0
    /\ EncLen(last.values[1]) <= stream_.end_ - last.before

-----------------------------------------------------------------------------
(* SpecTs: the timestamp stack.  A DeltaRLEWriter over a Base128StreamWriter *)
(* is given chunks of CHUNK_SIZE values with tput; a DeltaRLEReader over the *)
(* bytes written returns them one next() at a time.                          *)

\* the number of chunks a caller of the timestamp stack writes
TsChunks == 2

\* the buffer sizes of the timestamp stack: one too small for the larger
\* chunks, one with room for every chunk
TsSmallBuf == 8
TsLargeBuf == 130

RECURSIVE Ramp(_, _, _)
\* n values from start on, each the one before plus step (modulo 2^64)
Ramp(start, step, n) ==
    IF n = 0 THEN <<>> ELSE <<start>> \o Ramp(U64Add(start, step), step, n - 1)

RECURSIVE Doubling(_, _, _)
\* n values from start on, the difference doubling each time
Doubling(start, step, n) ==
    IF n = 0 THEN <<>>
    ELSE <<start>> \o Doubling(U64Add(start, step), U64Add(step, step), n - 1)

\* chunks of CHUNK_SIZE values: constant, regular, wrapping past 2^64,
\* descending (out of order), irregular, large, with runs, and alternating
TsChunkTable ==
    << Ramp(U64FromNat(1000), U64Zero, CHUNK_SIZE),
      Ramp(U64Zero, U64Zero, CHUNK_SIZE),
      Ramp(U64Zero, U64FromNat(100), CHUNK_SIZE),
      Ramp(U64Sub(U64Max, U64FromNat(7)), U64One, CHUNK_SIZE),
      Ramp(U64FromNat(1000), U64Max, CHUNK_SIZE),
      Doubling(U64Zero, U64One, CHUNK_SIZE),
      Doubling(U64Pow2(40), U64Pow2(60), CHUNK_SIZE),
      Ramp(U64Zero, U64Zero, 3) \o Ramp(U64FromNat(5), U64Zero, CHUNK_SIZE - 7)
          \o Ramp(U64FromNat(9), U64One, 4),
      [i \in 1..CHUNK_SIZE |-> IF i % 2 = 1 /\ i < 7 THEN U64FromNat(70000)
                               ELSE U64FromNat(3)] >>

InitTs ==
    /\ \E size \in {TsSmallBuf, TsLargeBuf} :
          stream_ = Base128StreamWriter([i \in 1..size |-> 0])
    /\ ts_stream_ = DeltaRLEWriter
    /\ BlockIdle
    /\ \E chunks \in [1..TsChunks -> 1..Len(TsChunkTable)] :
          input = [chunks |-> chunks, next |-> 1, failed |-> FALSE]
    /\ reader = NoReader
    /\ accepted = <<>>
    /\ output = <<>>
    /\ last = NoCall

\* ts_stream_.tput(chunk, CHUNK_SIZE) with the caller's next chunk; input.chunks
\* holds the chunks as indices into TsChunkTable
TsTput ==
    /\ ~reader.open
    /\ input.next <= Len(input.chunks)
    /\ LET chunk == TsChunkTable[input.chunks[input.next]]
           r == DeltaStreamWriter_tput(ts_stream_, stream_, chunk)
       IN  /\ stream_' = r.s
           /\ ts_stream_' = r.d
           /\ accepted' = IF r.ok THEN accepted \o chunk ELSE accepted
           /\ input' = [input EXCEPT !.next = @ + 1, !.failed = @ \/ ~r.ok]
           /\ last' = [op |-> "tput", ok |-> r.ok, chunk |-> chunk,
                       pos_ |-> stream_.pos_, ts_stream_ |-> ts_stream_]
    /\ UNCHANGED <<blockVars, reader, output>>

\* DeltaRLEReader over the bytes written so far
TsOpenReader ==
    /\ ~reader.open
    /\ stream_.pos_ > 0
    /\ reader' = [open |-> TRUE, stream_ |-> Base128StreamReader(0, stream_.pos_),
                  ts_stream_ |-> DeltaRLEReader]
    /\ last' = [op |-> "open"]
    /\ UNCHANGED <<stream_, ts_stream_, blockVars, input, accepted, output>>

\* reader.next(), once per value written
TsNext ==
    /\ reader.open
    /\ Len(output) < Len(accepted)
    /\ LET r == DeltaStreamReader_next(reader.ts_stream_, reader.stream_, stream_.mem)
       IN  /\ reader' = [reader EXCEPT !.stream_ = r.r, !.ts_stream_ = r.d]
           /\ output' = IF r.ok THEN Append(output, r.value) ELSE output
           /\ last' = [op |-> "next", ok |-> r.ok]
    /\ UNCHANGED <<stream_, ts_stream_, blockVars, input, accepted>>

NextTs == TsTput \/ TsOpenReader \/ TsNext

SpecTs == InitTs /\ [][NextTs]_vars

\* C9: as long as every chunk fitted, the values the reader returns are the
\* values written, in order, across chunk boundaries; no read fails, and the
\* last value read ends at the last byte written.
TsRoundTrip ==
    ~input.failed =>
        /\ Len(output) <= Len(accepted)
        /\ \A i \in 1..Len(output) : output[i] = accepted[i]
        /\ last.op = "next" => last.ok
        /\ (reader.open /\ Len(output) = Len(accepted)) =>
              reader.stream_.pos_ = reader.stream_.end_

\* two chunks were written and read back, the second one a descending one that
\* starts below the end of the first
TsRoundTripWitness ==
    /\ ~input.failed
    /\ Len(output) = 2 * CHUNK_SIZE
    /\ output[CHUNK_SIZE + 1] = U64FromNat(1000)
    /\ output[CHUNK_SIZE + 2] = U64FromNat(999)
    /\ output[CHUNK_SIZE] = U64Pow2m1(15)

\* C10: a tput of a chunk that does not fit leaves the byte cursor, the delta
\* writer's prev_ and the RLE writer's prev_ and reps_ as they were.
TsChunkRollback ==
    (last.op = "tput" /\ ~last.ok) =>
        /\ stream_.pos_ = last.pos_
        /\ ts_stream_ = last.ts_stream_

-----------------------------------------------------------------------------
(* Spec: a DataBlockWriter over a block, fed the samples of one series until *)
(* the block is full, sealed with commit at any moment, and then read with a *)
(* DataBlockReader over the sealed bytes.                                    *)

\* block sizes: too small for the header, too small for any chunk, one byte
\* short of a worst-case chunk, with room for one worst-case chunk, and with
\* room for a second chunk after a small first one
BlockTiny == 10
BlockSmall == 64
BlockAlmost == 325
BlockOne == 326
BlockTwo == 366

\* bit patterns of doubles: 3.14, 1.0, -0.0, a NaN, +infinity, and two with
\* no zero byte
D_3_14 == <<31, 133, 235, 81, 184, 30, 9, 64>>
D_1_0 == <<0, 0, 0, 0, 0, 0, 240, 63>>
D_NegZero == <<0, 0, 0, 0, 0, 0, 0, 128>>
D_NaN == <<0, 0, 0, 0, 0, 0, 248, 127>>
D_Inf == <<0, 0, 0, 0, 0, 0, 240, 127>>
D_Bits1 == <<239, 205, 171, 137, 103, 69, 35, 1>>
D_Bits2 == <<17, 34, 51, 68, 85, 102, 119, 136>>

\* the series a caller writes: the first timestamp, the step to the next one
\* (doubling after every sample, rising by one, or constant), and the values,
\* repeated in a cycle.  The last series makes every chunk as large as a chunk
\* can be: 16 different deltas of 10 bytes each, and values that differ from
\* every prediction in their most significant byte.
BlockSeries ==
    << [id |-> U64FromNat(1), ts |-> U64FromNat(1000), step |-> U64Zero,
        doubling |-> FALSE, rising |-> FALSE, values |-> <<D_3_14>>],
       [id |-> U64FromNat(42), ts |-> U64Zero, step |-> U64FromNat(100),
        doubling |-> FALSE, rising |-> FALSE, values |-> <<U64Zero, D_1_0, D_3_14, D_NegZero>>],
       [id |-> U64FromNat(7), ts |-> U64Zero, step |-> U64One,
        doubling |-> TRUE, rising |-> FALSE, values |-> <<U64Zero>>],
       [id |-> U64Zero, ts |-> U64Sub(U64Max, U64FromNat(20)), step |-> U64One,
        doubling |-> FALSE, rising |-> FALSE, values |-> <<D_Bits1, D_Bits2, D_NaN, D_Inf, U64Max>>],
       [id |-> U64Max, ts |-> U64FromNat(1000), step |-> U64Max,
        doubling |-> FALSE, rising |-> FALSE, values |-> <<D_1_0, D_NaN>>],
       [id |-> U64FromNat(9), ts |-> U64Pow2(63), step |-> U64Add(U64Pow2(63), U64One),
        doubling |-> FALSE, rising |-> TRUE,
        values |-> [i \in 1..CHUNK_SIZE |-> [k \in 1..8 |-> i]]] >>

\* the samples a caller tries after the block has refused one or was sealed
ExtraSamples ==
    { [ts |-> U64Zero, value |-> U64Zero],
      [ts |-> U64FromNat(1000), value |-> D_3_14],
      [ts |-> U64Max, value |-> D_Bits1] }

\* the DataBlockWriter as the record of its fields
Writer ==
    [stream_ |-> stream_, ts_stream_ |-> ts_stream_, val_stream_ |-> val_stream_,
     write_index_ |-> write_index_, ts_writebuf_ |-> ts_writebuf_,
     val_writebuf_ |-> val_writebuf_, nchunks_ |-> nchunks_, ntail_ |-> ntail_,
     lifecycle |-> lifecycle]

\* the next state's writer is w
WriterBecomes(w) ==
    /\ stream_' = w.stream_
    /\ ts_stream_' = w.ts_stream_
    /\ val_stream_' = w.val_stream_
    /\ write_index_' = w.write_index_
    /\ ts_writebuf_' = w.ts_writebuf_
    /\ val_writebuf_' = w.val_writebuf_
    /\ nchunks_' = w.nchunks_
    /\ ntail_' = w.ntail_
    /\ lifecycle' = w.lifecycle

\* *nchunks_ and *ntail_
NChunks == U16At(stream_.mem, nchunks_)
NTail == U16At(stream_.mem, ntail_)

\* what a caller can observe of the writer, taken before a call
Observed ==
    [write_index_ |-> DataBlockWriter_get_write_index(Writer),
     tail |-> DataBlockWriter_read_tail_elements(Writer),
     nchunks |-> NChunks,
     ntail |-> NTail,
     pos_ |-> stream_.pos_,
     mem |-> stream_.mem]

Init ==
    /\ \E k \in 1..Len(BlockSeries),
          size \in {BlockTiny, BlockSmall, BlockAlmost, BlockOne, BlockTwo} :
          /\ LET w == DataBlockWriter_ctor(BlockSeries[k].id, [i \in 1..size |-> 255])
             IN  /\ stream_ = w.stream_
                 /\ ts_stream_ = w.ts_stream_
                 /\ val_stream_ = w.val_stream_
                 /\ write_index_ = w.write_index_
                 /\ ts_writebuf_ = w.ts_writebuf_
                 /\ val_writebuf_ = w.val_writebuf_
                 /\ nchunks_ = w.nchunks_
                 /\ ntail_ = w.ntail_
                 /\ lifecycle = w.lifecycle
          /\ input = [series |-> k, ts |-> BlockSeries[k].ts, step |-> BlockSeries[k].step,
                      next |-> 1, overflowed |-> FALSE]
    /\ reader = NoReader
    /\ accepted = <<>>
    /\ output = <<>>
    /\ last = NoCall

\* the caller's next sample
NextSample ==
    LET values == BlockSeries[input.series].values
    IN  [ts |-> input.ts, value |-> values[((input.next - 1) % Len(values)) + 1]]

\* writer.put(sample.ts, sample.value)
PutSample(sample) ==
    LET Returns(r) ==
            /\ WriterBecomes(r.w)
            /\ accepted' = IF r.status = SUCCESS THEN Append(accepted, sample)
                           ELSE accepted
            /\ last' = [op |-> "put", status |-> r.status, sample |-> sample,
                        before |-> Observed, overflowed |-> input.overflowed]
            /\ input' = IF r.status = SUCCESS /\ ~input.overflowed
                        THEN [input EXCEPT
                                !.ts = U64Add(input.ts, input.step),
                                !.step = IF BlockSeries[input.series].doubling
                                         THEN U64Add(input.step, input.step)
                                         ELSE IF BlockSeries[input.series].rising
                                         THEN U64Add(input.step, U64One)
                                         ELSE input.step,
                                !.next = @ + 1]
                        ELSE [input EXCEPT !.overflowed = @ \/ r.status = OVERFLOW]
    IN  /\ Returns(DataBlockWriter_put(Writer, sample.ts, sample.value))
        /\ UNCHANGED <<reader, output>>

\* put with the next sample of the series, as long as none was refused
Put ==
    /\ lifecycle = "open"
    /\ ~input.overflowed
    /\ PutSample(NextSample)

\* put with any sample, after one was refused or after commit
PutMore ==
    /\ lifecycle = "sealed" \/ (lifecycle = "open" /\ input.overflowed)
    /\ ~reader.open
    /\ \E sample \in ExtraSamples : PutSample(sample)

\* writer.read_tail_elements(&timestamps, &values)
ReadTail ==
    /\ lifecycle = "open"
    /\ last' = [op |-> "read_tail", tail |-> DataBlockWriter_read_tail_elements(Writer)]
    /\ UNCHANGED <<stream_, ts_stream_, blockVars, reader, input, accepted, output>>

\* writer.commit()
Commit ==
    /\ lifecycle = "open"
    /\ LET r == DataBlockWriter_commit(Writer)
       IN  /\ WriterBecomes(r.w)
           /\ last' = [op |-> "commit", size |-> r.size, before |-> Observed]
    /\ UNCHANGED <<reader, input, accepted, output>>

\* DataBlockReader over the sealed bytes
OpenReader ==
    /\ lifecycle = "sealed"
    /\ ~reader.open
    /\ reader' = DataBlockReader_ctor(stream_.mem, Base128StreamWriter_size(stream_))
    /\ last' = [op |-> "open"]
    /\ UNCHANGED <<stream_, ts_stream_, blockVars, input, accepted, output>>

\* reader.next()
ReaderNext ==
    /\ reader.open
    /\ LET r == DataBlockReader_next(reader, stream_.mem)
       IN  /\ reader' = r.rd
           /\ output' = IF r.status = SUCCESS
                        THEN Append(output, [ts |-> r.ts, value |-> r.value])
                        ELSE output
           /\ last' = [op |-> "next", status |-> r.status,
                       index |-> reader.read_index_]
    /\ UNCHANGED <<stream_, ts_stream_, blockVars, input, accepted>>

Next == Put \/ PutMore \/ ReadTail \/ Commit \/ OpenReader \/ ReaderNext

Spec == Init /\ [][Next]_vars

\* the samples accepted so far that belong to no complete chunk
TailOf(samples) ==
    SubSeq(samples, (Len(samples) \div CHUNK_SIZE) * CHUNK_SIZE + 1, Len(samples))

\* C1: the reader over the sealed bytes returns the first nchunks * 16 accepted
\* samples, in order and bit for bit, then reports the end of the data, and
\* read_tail_elements before commit returns the remaining accepted samples.
BlockRoundTrip ==
    /\ reader.open =>
          /\ Len(output) <= NChunks * CHUNK_SIZE
          /\ \A i \in 1..Len(output) : output[i] = accepted[i]
          /\ (last.op = "next" /\ last.status # SUCCESS) =>
                /\ last.status = NO_DATA
                /\ Len(output) = NChunks * CHUNK_SIZE
                /\ reader.stream_.pos_ = reader.stream_.end_
    /\ last.op = "read_tail" =>
          /\ Len(last.tail.timestamps) = Len(TailOf(accepted))
          /\ Len(last.tail.values) = Len(TailOf(accepted))
          /\ \A i \in 1..Len(TailOf(accepted)) :
                /\ last.tail.timestamps[i] = TailOf(accepted)[i].ts
                /\ last.tail.values[i] = TailOf(accepted)[i].value

\* a block of two chunks and a tail of three was read to its end
BlockRoundTripWitness ==
    /\ reader.open
    /\ last.op = "next"
    /\ last.status = NO_DATA
    /\ Len(output) = 2 * CHUNK_SIZE
    /\ NTail = 3
    /\ output[CHUNK_SIZE + 1].ts # output[CHUNK_SIZE].ts

\* C2: the write index is the number of puts that returned SUCCESS, the chunks
\* flushed and the samples buffered add up to it, fewer than 16 samples are
\* buffered, and after commit the header's nchunks * 16 + ntail equals it, with
\* ntail in 0..15.
SampleAccounting ==
    lifecycle # "unwritable" =>
        /\ DataBlockWriter_get_write_index(Writer) = Len(accepted)
        /\ Len(ts_writebuf_) \in 0..CHUNK_MASK
        /\ Len(val_writebuf_) = Len(ts_writebuf_)
        /\ lifecycle = "open" => NChunks * CHUNK_SIZE + Len(ts_writebuf_) = Len(accepted)
        /\ lifecycle = "sealed" =>
              /\ NTail \in 0..CHUNK_MASK
              /\ NChunks * CHUNK_SIZE + NTail = Len(accepted)

\* a block was sealed with one chunk and a tail of 15, after puts were refused
SampleAccountingWitness ==
    /\ lifecycle = "sealed"
    /\ input.overflowed
    /\ NChunks = 1
    /\ NTail = CHUNK_MASK
    /\ last.op = "put"

\* C3: the byte cursor never passes the end of the block, and commit returns a
\* byte count of at most the block size.
NoOvershoot ==
    /\ stream_.pos_ <= stream_.end_
    /\ last.op = "commit" => last.size <= stream_.end_

\* a block that refused a sample was sealed with more than its header in it
NoOvershootWitness ==
    /\ last.op = "commit"
    /\ input.overflowed
    /\ last.size > HEADER_SIZE + CHUNK_SIZE

\* C4: a put that returns OVERFLOW leaves the write index, the tail, nchunks
\* and the byte cursor as they were, and a commit after it seals the chunks
\* flushed before, with ntail the number of samples in the tail.
RejectedPutChangesNothing ==
    /\ (last.op = "put" /\ last.status = OVERFLOW) =>
          /\ DataBlockWriter_get_write_index(Writer) = last.before.write_index_
          /\ DataBlockWriter_read_tail_elements(Writer) = last.before.tail
          /\ NChunks = last.before.nchunks
          /\ stream_.pos_ = last.before.pos_
    /\ (last.op = "commit" /\ input.overflowed) =>
          /\ NChunks = last.before.nchunks
          /\ NTail = Len(last.before.tail.timestamps)
          /\ NChunks * CHUNK_SIZE + NTail = Len(accepted)
          /\ last.size = last.before.pos_

\* a put was refused with 15 samples in the tail and two chunks flushed
RejectedPutChangesNothingWitness ==
    /\ last.op = "put"
    /\ last.status = OVERFLOW
    /\ Len(last.before.tail.timestamps) = CHUNK_MASK
    /\ last.before.nchunks = 2

ReaderExhaustion ==
    /\ [](reader.open =>
            /\ DataBlockReader_nelements(reader, stream_.mem) = NChunks * CHUNK_SIZE
            /\ Len(output) <= NChunks * CHUNK_SIZE
            /\ Len(output) = reader.read_index_
            /\ \A i \in 1..Len(output) : output[i] = accepted[i]
            /\ last.op = "next" =>
                  IF last.status = SUCCESS THEN last.index < NChunks * CHUNK_SIZE
                  ELSE /\ last.status = NO_DATA
                       /\ last.index = NChunks * CHUNK_SIZE)
    /\ [][(reader.open /\ last.op = "next" /\ last.status # SUCCESS) =>
             /\ output' = output
             /\ last'.op = "next" => last'.status = last.status]_vars

\* both chunks of a block were read, the call after them was refused, and
\* the block has tail samples that no call returned
ReaderExhaustionWitness ==
    /\ reader.open
    /\ last.op = "next"
    /\ last.status = NO_DATA
    /\ Len(output) = 2 * CHUNK_SIZE
    /\ NTail > 0
    /\ Len(accepted) = 2 * CHUNK_SIZE + NTail

\* C17: a put that completes a chunk succeeds exactly when room_for_chunk
\* holds before it, so no flush that was started fails; a chunk takes at most
\* the bound that room_for_chunk asks for; and the payload of a sealed block
\* is exactly nchunks chunks: a reader that has returned nchunks*16 samples
\* stands at the end of the payload.
NoPartialChunks ==
    /\ (last.op = "put" /\ last.status # STATE_ERROR
          /\ last.before.write_index_ % CHUNK_SIZE = CHUNK_MASK) =>
          /\ last.status = SUCCESS <=>
                DataBlockWriter_room_for_chunk(
                    [stream_ |-> [stream_ EXCEPT !.pos_ = last.before.pos_]])
          /\ stream_.pos_ - last.before.pos_ <= RoomForChunkMargin
          /\ last.status = SUCCESS => NChunks = last.before.nchunks + 1
    /\ (last.op = "put" /\ last.before.write_index_ % CHUNK_SIZE # CHUNK_MASK) =>
          stream_.pos_ = last.before.pos_
    /\ lifecycle = "open" => NChunks = write_index_ \div CHUNK_SIZE
    /\ (reader.open /\ Len(output) = NChunks * CHUNK_SIZE) =>
          reader.stream_.pos_ = stream_.pos_

\* a chunk as large as the bound was flushed into a block that had exactly
\* that much room left
NoPartialChunksWitness ==
    /\ last.op = "put"
    /\ last.status = SUCCESS
    /\ last.before.write_index_ = CHUNK_MASK
    /\ stream_.pos_ - last.before.pos_ = RoomForChunkMargin
    /\ stream_.pos_ = stream_.end_

-----------------------------------------------------------------------------
(* SpecDamaged: blocks written and sealed as above, then read through a      *)
(* DataBlockReader that is given fewer bytes than were sealed, or the sealed *)
(* bytes with a header field overwritten.                                    *)

\* the length of the truncated buffer that ends inside the first chunk's
\* timestamps (the other truncation drops the last byte)
TruncatedTo == 19

\* header fields a caller overwrites: the offset of the u16 and its new value
HeaderDamage ==
    { [at |-> 0, value |-> 99], [at |-> 0, value |-> 0], [at |-> 0, value |-> 2],
      [at |-> 4, value |-> 16], [at |-> 4, value |-> 65535] }

\* DataBlockReader over a prefix of the sealed bytes
OpenTruncated ==
    /\ lifecycle = "sealed"
    /\ ~reader.open
    /\ \E bufsize \in {Base128StreamWriter_size(stream_) - 1, TruncatedTo} :
          /\ bufsize < Base128StreamWriter_size(stream_)
          /\ reader' = DataBlockReader_ctor(stream_.mem, bufsize)
    /\ last' = [op |-> "open"]
    /\ UNCHANGED <<stream_, ts_stream_, blockVars, input, accepted, output>>

\* DataBlockReader over the sealed bytes after a header field was overwritten
OpenDamaged ==
    /\ lifecycle = "sealed"
    /\ ~reader.open
    /\ \E d \in HeaderDamage :
          LET mem == StoreBytes(stream_.mem, d.at, U16Bytes(d.value))
          IN  /\ stream_' = [stream_ EXCEPT !.mem = mem]
              /\ reader' = DataBlockReader_ctor(mem, Base128StreamWriter_size(stream_))
    /\ last' = [op |-> "open"]
    /\ UNCHANGED <<ts_stream_, blockVars, input, accepted, output>>

NextDamaged == Put \/ Commit \/ OpenTruncated \/ OpenDamaged \/ ReaderNext

SpecDamaged == Init /\ [][NextDamaged]_vars

\* the reader was given fewer bytes than were sealed
Truncated == reader.open /\ reader.stream_.end_ < Base128StreamWriter_size(stream_)

\* the reader was given a header with a bad version or a bad ntail
Damaged ==
    /\ reader.open
    /\ U16At(stream_.mem, 0) # AKUMULI_VERSION \/ U16At(stream_.mem, 4) > CHUNK_MASK

InvalidHeaderRejected ==
    Damaged =>
        /\ reader.corrupt
        /\ output = <<>>
        /\ last.op = "next" => last.status = CORRUPT

\* next() was called on a reader over a block of two chunks whose version
\* field had been set to 99
InvalidHeaderRejectedWitness ==
    /\ Damaged
    /\ DataBlockReader_version(reader, stream_.mem) = 99
    /\ U16At(stream_.mem, 2) = 2
    /\ last.op = "next"
    /\ last.status = CORRUPT

-----------------------------------------------------------------------------
(* SpecZigZag: the zig-zag layer over RLE over Base128, all on i64.  Values  *)
(* are written with ZigZagStreamWriter::put, the RLE layer is committed, and *)
(* a ZigZagStreamReader over the bytes written returns them.                 *)

\* the number of values a caller of the zig-zag stack writes, and the buffer
MaxZigZag == 2
ZigZagBuf == 24

\* i64 values: small ones of both signs, and the ones around 2^62 and at the
\* ends of the range
I64Samples ==
    {U64Zero, U64One, U64Max, U64FromNat(1000), U64Sub(U64Zero, U64FromNat(1000)),
     U64Pow2m1(62), U64Pow2(62), U64Sub(U64Zero, U64Pow2(62)),
     U64Sub(U64Zero, U64Add(U64Pow2(62), U64One)), I64Max, I64Min}

InitZigZag ==
    /\ stream_ = Base128StreamWriter([i \in 1..ZigZagBuf |-> 0])
    /\ ts_stream_ = RLEStreamWriter
    /\ BlockIdle
    /\ input = [committed |-> FALSE, failed |-> FALSE]
    /\ reader = NoReader
    /\ accepted = <<>>
    /\ output = <<>>
    /\ last = NoCall

\* writer.put(x)
ZigZagPut ==
    /\ ~input.committed
    /\ ~input.failed
    /\ Len(accepted) < MaxZigZag
    /\ \E x \in I64Samples :
          LET Returns(r) ==
                  /\ stream_' = r.s
                  /\ ts_stream_' = r.w
                  /\ accepted' = IF r.ok THEN Append(accepted, x) ELSE accepted
                  /\ input' = [input EXCEPT !.failed = ~r.ok]
                  /\ last' = [op |-> "put", value |-> x, ok |-> r.ok,
                              res |-> ZigZagStreamWriter_res(x)]
          IN  Returns(ZigZagStreamWriter_put(ts_stream_, stream_, x))
    /\ UNCHANGED <<blockVars, reader, output>>

\* writer.commit()
ZigZagCommit ==
    /\ ~input.committed
    /\ ~input.failed
    /\ LET Returns(r) ==
               /\ stream_' = r.s
               /\ ts_stream_' = r.w
               /\ input' = [input EXCEPT !.committed = TRUE, !.failed = ~r.ok]
               /\ last' = [op |-> "commit", ok |-> r.ok]
       IN  Returns(RLEStreamWriter_commit("i64", ts_stream_, stream_))
    /\ UNCHANGED <<blockVars, reader, accepted, output>>

\* ZigZagStreamReader over the bytes written
ZigZagOpenReader ==
    /\ input.committed
    /\ ~input.failed
    /\ ~reader.open
    /\ reader' = [open |-> TRUE, stream_ |-> Base128StreamReader(0, stream_.pos_),
                  rle |-> RLEStreamReader]
    /\ last' = [op |-> "open"]
    /\ UNCHANGED <<stream_, ts_stream_, blockVars, input, accepted, output>>

\* reader.next(), once per value written
ZigZagNext ==
    /\ reader.open
    /\ Len(output) < Len(accepted)
    /\ LET Returns(r) ==
               /\ reader' = [reader EXCEPT !.stream_ = r.r, !.rle = r.rle]
               /\ output' = IF r.ok THEN Append(output, r.value) ELSE output
               /\ last' = [op |-> "next", ok |-> r.ok, n |-> r.n, value |-> r.value]
       IN  Returns(ZigZagStreamReader_next(reader.rle, reader.stream_, stream_.mem))
    /\ UNCHANGED <<stream_, ts_stream_, blockVars, input, accepted>>

NextZigZag == ZigZagPut \/ ZigZagCommit \/ ZigZagOpenReader \/ ZigZagNext

SpecZigZag == InitZigZag /\ [][NextZigZag]_vars

\* C11: the value that ZigZagStreamReader::next computes from the value that
\* ZigZagStreamWriter::put computed for x is x, for every i64 x, and the
\* reader returns the values that were put.
ZigZagBijection ==
    /\ last.op = "put" => ZigZagStreamReader_value(last.res) = last.value
    /\ \A i \in 1..Len(output) : output[i] = accepted[i]
-----------------------------------------------------------------------------
(* SpecFcm: the value codec alone.  Bit patterns are written with            *)
(* FcmStreamWriter::put and commit into a buffer with room for all of them,  *)
(* and an FcmStreamReader over the bytes written returns them.               *)

\* the number of values a caller of the FCM codec writes, and the buffer
MaxFcm == 3
FcmBuf == 40

\* bit patterns: 0.0, -0.0, 1.0, 3.14, a NaN, +infinity, -infinity, and one
\* with no zero byte
FcmSamples ==
    {U64Zero, D_NegZero, D_1_0, D_3_14, D_NaN, D_Inf,
     <<0, 0, 0, 0, 0, 0, 240, 255>>, D_Bits1}

InitFcm ==
    /\ stream_ = Base128StreamWriter([i \in 1..FcmBuf |-> 0])
    /\ ts_stream_ = DeltaRLEWriter
    /\ val_stream_ = FcmStreamWriter
    /\ write_index_ = 0
    /\ ts_writebuf_ = <<>>
    /\ val_writebuf_ = <<>>
    /\ nchunks_ = -1
    /\ ntail_ = -1
    /\ lifecycle = "unwritable"
    /\ input = [committed |-> FALSE, failed |-> FALSE]
    /\ reader = NoReader
    /\ accepted = <<>>
    /\ output = <<>>
    /\ last = NoCall

\* writer.put(x); the history keeps the writer's predictor after the value
FcmPut ==
    /\ ~input.committed
    /\ Len(accepted) < MaxFcm
    /\ \E x \in FcmSamples :
          LET Returns(r) ==
                  /\ stream_' = r.s
                  /\ val_stream_' = r.w
                  /\ accepted' = IF r.ok
                                 THEN Append(accepted, [value |-> x,
                                                        predictor_ |-> r.w.predictor_])
                                 ELSE accepted
                  /\ input' = [input EXCEPT !.failed = @ \/ ~r.ok]
                  /\ last' = [op |-> "put", ok |-> r.ok]
          IN  Returns(FcmStreamWriter_put(val_stream_, stream_, x))
    /\ UNCHANGED <<ts_stream_, write_index_, ts_writebuf_, val_writebuf_, nchunks_,
                   ntail_, lifecycle, reader, output>>

\* writer.commit()
FcmCommit ==
    /\ ~input.committed
    /\ LET Returns(r) ==
               /\ stream_' = r.s
               /\ input' = [input EXCEPT !.committed = TRUE, !.failed = @ \/ ~r.ok]
               /\ last' = [op |-> "commit", ok |-> r.ok]
       IN  Returns(FcmStreamWriter_commit(val_stream_, stream_))
    /\ UNCHANGED <<ts_stream_, blockVars, reader, accepted, output>>

\* FcmStreamReader over the bytes written
FcmOpenReader ==
    /\ input.committed
    /\ ~reader.open
    /\ reader' = [open |-> TRUE, stream_ |-> Base128StreamReader(0, stream_.pos_),
                  val_stream_ |-> FcmStreamReader]
    /\ last' = [op |-> "open"]
    /\ UNCHANGED <<stream_, ts_stream_, blockVars, input, accepted, output>>

\* reader.next(), once per value written
FcmNext ==
    /\ reader.open
    /\ Len(output) < Len(accepted)
    /\ LET Returns(r) ==
               /\ reader' = [reader EXCEPT !.stream_ = r.r, !.val_stream_ = r.f]
               /\ output' = IF r.ok THEN Append(output, r.value) ELSE output
               /\ last' = [op |-> "next", ok |-> r.ok]
       IN  Returns(FcmStreamReader_next(reader.val_stream_, reader.stream_,
                                        stream_.mem))
    /\ UNCHANGED <<stream_, ts_stream_, blockVars, input, accepted>>

NextFcm == FcmPut \/ FcmCommit \/ FcmOpenReader \/ FcmNext

SpecFcm == InitFcm /\ [][NextFcm]_vars

\* C12: with room for every value, no put and no commit fails, the reader
\* returns the bit patterns that were put, in order, for sequences of even
\* and of odd length, its predictor holds the writer's table and hash after
\* each value, and the last value read ends at the last byte written.
FcmBitTransparency ==
    /\ 17 * ((MaxFcm + 1) \div 2) <= FcmBuf => ~input.failed
    /\ ~input.failed =>
          /\ last.op = "next" => last.ok
          /\ Len(output) <= Len(accepted)
          /\ \A i \in 1..Len(output) : output[i] = accepted[i].value
          /\ (reader.open /\ output # <<>>) =>
                reader.val_stream_.predictor_ = accepted[Len(output)].predictor_
          /\ (reader.open /\ Len(output) = Len(accepted)) =>
                reader.stream_.pos_ = reader.stream_.end_

\* three values, a NaN, zero and an infinity, were written (the third one
\* alone in its pair) and read back
FcmBitTransparencyWitness ==
    /\ Len(output) = 3
    /\ output = <<D_NaN, U64Zero, D_Inf>>
    /\ reader.val_stream_.predictor_.table # <<>>
-----------------------------------------------------------------------------
(* What a chunk of timestamps looks like in the VarInt stream *)

RECURSIVE VarIntsIn(_, _, _)
\* the values of the VarInts that lie in mem from offset p up to offset end
VarIntsIn(mem, p, end) ==
    IF p >= end THEN <<>>
    ELSE LET Rest(g) ==
                 IF g.p = p THEN <<>>
                 ELSE <<g.value_>> \o VarIntsIn(mem, g.p, end)
         IN  Rest(Base128Int_get(mem, p, end))

\* the last call wrote the chunk of 16 timestamps 1000 to a fresh stack
ConstantChunkWritten ==
    /\ last.op = "tput"
    /\ last.ok
    /\ last.chunk = [i \in 1..CHUNK_SIZE |-> U64FromNat(1000)]
    /\ last.pos_ = 0
    /\ last.ts_stream_ = DeltaRLEWriter

\* C16 as stated: the constant chunk is written as the one pair (15, 1000).
ConstantSeriesOnePair ==
    ConstantChunkWritten =>
        VarIntsIn(stream_.mem, 0, stream_.pos_) = <<U64FromNat(15), U64FromNat(1000)>>

\* C16, amended: the constant chunk is written as the two pairs (1, 1000), the
\* first delta, and (15, 0), the fifteen zero deltas, in five bytes.
ConstantSeriesTwoPairs ==
    ConstantChunkWritten =>
        /\ VarIntsIn(stream_.mem, 0, stream_.pos_) =
              <<U64One, U64FromNat(1000), U64FromNat(15), U64Zero>>
        /\ stream_.pos_ = 5

\* the constant chunk was written first, into the small buffer
ConstantSeriesTwoPairsWitness ==
    /\ ConstantChunkWritten
    /\ stream_.end_ = TsSmallBuf
    /\ accepted = last.chunk
-----------------------------------------------------------------------------
(* SpecRle: RLEStreamWriter<TVal> written value by value with put and then   *)
(* committed, for TVal u64 and i64, and an RLEStreamReader over the bytes    *)
(* written.                                                                  *)

\* the number of values a caller of the RLE stream writes, and the buffers:
\* one too small for two pairs, one with room for every pair
MaxRle == 4
RleSmallBuf == 3
RleLargeBuf == 50

\* values of 1 and 10 encoded bytes; the last one is -1 as an i64
RleSamples == {U64Zero, U64FromNat(5), U64FromNat(7), U64Max}

InitRle ==
    /\ \E size \in {RleSmallBuf, RleLargeBuf} :
          stream_ = Base128StreamWriter([i \in 1..size |-> 0])
    /\ ts_stream_ = RLEStreamWriter
    /\ BlockIdle
    /\ \E TVal \in {"u64", "i64"} :
          input = [TVal |-> TVal, committed |-> FALSE, failed |-> FALSE]
    /\ reader = NoReader
    /\ accepted = <<>>
    /\ output = <<>>
    /\ last = NoCall

\* writer.put(x)
RlePut ==
    /\ ~input.committed
    /\ ~input.failed
    /\ Len(accepted) < MaxRle
    /\ \E x \in RleSamples :
          LET Returns(r) ==
                  /\ stream_' = r.s
                  /\ ts_stream_' = r.w
                  /\ accepted' = IF r.ok THEN Append(accepted, x) ELSE accepted
                  /\ input' = [input EXCEPT !.failed = ~r.ok]
                  /\ last' = [op |-> "put", value |-> x, ok |-> r.ok,
                              pos_ |-> stream_.pos_, w |-> ts_stream_]
          IN  Returns(RLEStreamWriter_put(input.TVal, ts_stream_, stream_, x))
    /\ UNCHANGED <<blockVars, reader, output>>

\* writer.commit()
RleCommit ==
    /\ ~input.committed
    /\ ~input.failed
    /\ LET Returns(r) ==
               /\ stream_' = r.s
               /\ ts_stream_' = r.w
               /\ input' = [input EXCEPT !.committed = TRUE, !.failed = ~r.ok]
               /\ last' = [op |-> "commit", ok |-> r.ok, pos_ |-> stream_.pos_,
                           w |-> ts_stream_]
       IN  Returns(RLEStreamWriter_commit(input.TVal, ts_stream_, stream_))
    /\ UNCHANGED <<blockVars, reader, accepted, output>>

\* RLEStreamReader over the bytes written
RleOpenReader ==
    /\ input.committed
    /\ ~input.failed
    /\ ~reader.open
    /\ reader' = [open |-> TRUE, stream_ |-> Base128StreamReader(0, stream_.pos_),
                  rle |-> RLEStreamReader]
    /\ last' = [op |-> "open"]
    /\ UNCHANGED <<stream_, ts_stream_, blockVars, input, accepted, output>>

\* reader.next(), once per value written
RleNext ==
    /\ reader.open
    /\ Len(output) < Len(accepted)
    /\ LET Returns(r) ==
               /\ reader' = [reader EXCEPT !.stream_ = r.r, !.rle = r.rle]
               /\ output' = IF r.ok THEN Append(output, r.value) ELSE output
               /\ last' = [op |-> "next", ok |-> r.ok]
       IN  Returns(RLEStreamReader_next(reader.rle, reader.stream_, stream_.mem))
    /\ UNCHANGED <<stream_, ts_stream_, blockVars, input, accepted>>

NextRle == RlePut \/ RleCommit \/ RleOpenReader \/ RleNext

SpecRle == InitRle /\ [][NextRle]_vars

RECURSIVE Copies(_, _)
\* n copies of v, for a repeat count n below 256
Copies(n, v) == IF n = 0 THEN <<>> ELSE <<v>> \o Copies(n - 1, v)

RECURSIVE ExpandPairs(_)
\* the (repeat-count, value) pairs in vs, each expanded
ExpandPairs(vs) ==
    IF Len(vs) < 2 THEN <<>>
    ELSE Copies(vs[1][1], vs[2]) \o ExpandPairs(SubSeq(vs, 3, Len(vs)))

\* C18: a put writes to the stream only when its value differs from the one
\* of a pending run; a commit that succeeds writes exactly one pair, the pair
\* of the pending run or (0, 0) after no put; the pairs in the stream then
\* expand to the values that were put; and the reader returns those values.
RleRuns ==
    /\ (last.op = "put" /\ last.ok) =>
          IF last.value # last.w.prev_ /\ last.w.reps_ # U64Zero
          THEN VarIntsIn(stream_.mem, last.pos_, stream_.pos_)
                  = <<last.w.reps_, last.w.prev_>>
          ELSE stream_.pos_ = last.pos_
    /\ (last.op = "commit" /\ last.ok) =>
          /\ VarIntsIn(stream_.mem, last.pos_, stream_.pos_)
                = <<last.w.reps_, last.w.prev_>>
          /\ accepted = <<>> => VarIntsIn(stream_.mem, 0, stream_.pos_)
                                    = <<U64Zero, U64Zero>>
    /\ (input.committed /\ ~input.failed) =>
          /\ Len(VarIntsIn(stream_.mem, 0, stream_.pos_)) % 2 = 0
          /\ ExpandPairs(VarIntsIn(stream_.mem, 0, stream_.pos_)) = accepted
          /\ \A i \in 1..Len(output) : output[i] = accepted[i]
          /\ last.op = "next" => last.ok
          /\ (reader.open /\ Len(output) = Len(accepted) /\ accepted # <<>>) =>
                reader.stream_.pos_ = reader.stream_.end_

\* 5, 5, 0, 5 was put, committed as three pairs and read back
RleRunsWitness ==
    /\ input.committed
    /\ output = <<U64FromNat(5), U64FromNat(5), U64Zero, U64FromNat(5)>>
    /\ VarIntsIn(stream_.mem, 0, stream_.pos_)
          = <<U64FromNat(2), U64FromNat(5), U64One, U64Zero, U64One, U64FromNat(5)>>
-----------------------------------------------------------------------------
(* DeltaDeltaStreamWriter<Step, TVal> and DeltaDeltaStreamReader<Step, TVal> *)
(* (lines 340-418) for an unsigned 64-bit TVal, over the VarInt stream.      *)

\* the template parameter Step
DeltaDeltaStep == 2

RECURSIVE U64LessFrom(_, _, _)
\* a < b decided from byte k downwards
U64LessFrom(a, b, k) ==
    IF k = 0 THEN FALSE
    ELSE IF a[k] # b[k] THEN a[k] < b[k]
    ELSE U64LessFrom(a, b, k - 1)

\* std::min(a, b) of two unsigned values
U64Min(a, b) == IF U64LessFrom(b, a, 8) THEN b ELSE a

DeltaDeltaStreamWriter == [prev_ |-> U64Zero, put_calls_ |-> 0]

RECURSIVE DeltaDeltaStreamWriter_tput_deltas(_, _, _, _)
\* the first loop of tput: outbuf[i] = iter[i] - prev_, prev_ = iter[i]
DeltaDeltaStreamWriter_tput_deltas(prev, iter, i, outbuf) ==
    IF i > Len(iter) THEN [prev_ |-> prev, outbuf |-> outbuf]
    ELSE DeltaDeltaStreamWriter_tput_deltas(iter[i], iter, i + 1,
                                            Append(outbuf, U64Sub(iter[i], prev)))

RECURSIVE DeltaDeltaStreamWriter_tput_min(_, _, _)
\* the second loop of tput: the smallest element of outbuf
DeltaDeltaStreamWriter_tput_min(outbuf, i, min) ==
    IF i > Len(outbuf) THEN min
    ELSE DeltaDeltaStreamWriter_tput_min(outbuf, i + 1, U64Min(outbuf[i], min))

\* DeltaDeltaStreamWriter::tput: w is the writer, s the Base128StreamWriter
\* below it, iter the Step values of the chunk
DeltaDeltaStreamWriter_tput(w, s, iter) ==
    LET Residuals(l, r) == [ok |-> r.ok, w |-> [w EXCEPT !.prev_ = l.prev_], s |-> r.s]
        Encoded(l, min, p) ==
            IF ~p.ok
            THEN [ok |-> FALSE, w |-> [w EXCEPT !.prev_ = l.prev_], s |-> p.s]
            ELSE Residuals(l, Base128StreamWriter_tput(p.s,
                                  [i \in 1..Len(l.outbuf) |-> U64Sub(l.outbuf[i], min)]))
        Least(l, min) == Encoded(l, min, Base128StreamWriter_put(s, min))
        Deltas(l) == Least(l, DeltaDeltaStreamWriter_tput_min(l.outbuf, 2, l.outbuf[1]))
    IN  Deltas(DeltaDeltaStreamWriter_tput_deltas(w.prev_, iter, 1, <<>>))

\* DeltaDeltaStreamWriter::put
DeltaDeltaStreamWriter_put(w, s, value) ==
    LET Delta(p, r) ==
            [ok |-> r.ok,
             w |-> [prev_ |-> value, put_calls_ |-> w.put_calls_ + 1],
             s |-> r.s]
        First(p) ==
            IF ~p.ok THEN [ok |-> FALSE, w |-> w, s |-> p.s]
            ELSE Delta(p, Base128StreamWriter_put(p.s, U64Sub(value, w.prev_)))
    IN  IF w.put_calls_ = 0
        THEN First(Base128StreamWriter_put(s, U64Zero))
        ELSE First([ok |-> TRUE, s |-> s])

DeltaDeltaStreamReader == [prev_ |-> U64Zero, min_ |-> U64Zero, counter_ |-> 0]

\* DeltaDeltaStreamReader::next: d is the reader, r the Base128StreamReader
\* below it; ok is FALSE when a stream_.next throws (AKU_PANIC)
DeltaDeltaStreamReader_next(d, r, mem) ==
    LET Sum(min, n, value) ==
            [ok |-> TRUE,
             d |-> [prev_ |-> value, min_ |-> min, counter_ |-> d.counter_ + 1],
             r |-> n.r, value |-> value]
        Delta(min, n) ==
            IF ~n.ok
            THEN [ok |-> FALSE,
                  d |-> [d EXCEPT !.min_ = min, !.counter_ = d.counter_ + 1],
                  r |-> n.r, value |-> U64Zero]
            ELSE Sum(min, n, U64Add(U64Add(d.prev_, n.value), min))
        Min(m) ==
            IF ~m.ok THEN [ok |-> FALSE, d |-> d, r |-> m.r, value |-> U64Zero]
            ELSE Delta(m.value, Base128StreamReader_next(m.r, mem))
    IN  IF d.counter_ % DeltaDeltaStep = 0
        THEN Min(Base128StreamReader_next(r, mem))
        ELSE Min([ok |-> TRUE, r |-> r, value |-> d.min_])

(* SpecDeltaDelta: a DeltaDeltaStreamWriter fed either chunk by chunk with   *)
(* tput or value by value with put, and a DeltaDeltaStreamReader over the    *)
(* bytes written.                                                            *)

\* the number of chunks (of Step values) written, and a buffer with room for
\* every value and every minimum at 10 bytes each
MaxDdChunks == 2
DdBuf == 60

\* rising, falling and wrapping deltas
DdSamples == {U64FromNat(1), U64FromNat(3), U64FromNat(1000), U64Max}

InitDeltaDelta ==
    /\ stream_ = Base128StreamWriter([i \in 1..DdBuf |-> 0])
    /\ ts_stream_ = DeltaDeltaStreamWriter
    /\ BlockIdle
    /\ \E mode \in {"tput", "put"} : input = [mode |-> mode, failed |-> FALSE]
    /\ reader = NoReader
    /\ accepted = <<>>
    /\ output = <<>>
    /\ last = NoCall

\* writer.tput(chunk, Step)
DeltaDeltaTput ==
    /\ input.mode = "tput"
    /\ ~reader.open
    /\ ~input.failed
    /\ Len(accepted) < MaxDdChunks * DeltaDeltaStep
    /\ \E chunk \in [1..DeltaDeltaStep -> DdSamples] :
          LET Returns(r) ==
                  /\ stream_' = r.s
                  /\ ts_stream_' = r.w
                  /\ accepted' = IF r.ok THEN accepted \o chunk ELSE accepted
                  /\ input' = [input EXCEPT !.failed = ~r.ok]
                  /\ last' = [op |-> "tput", ok |-> r.ok]
          IN  Returns(DeltaDeltaStreamWriter_tput(ts_stream_, stream_, chunk))
    /\ UNCHANGED <<blockVars, reader, output>>

\* writer.put(x)
DeltaDeltaPut ==
    /\ input.mode = "put"
    /\ ~reader.open
    /\ ~input.failed
    /\ Len(accepted) < MaxDdChunks * DeltaDeltaStep
    /\ \E x \in DdSamples :
          LET Returns(r) ==
                  /\ stream_' = r.s
                  /\ ts_stream_' = r.w
                  /\ accepted' = IF r.ok THEN Append(accepted, x) ELSE accepted
                  /\ input' = [input EXCEPT !.failed = ~r.ok]
                  /\ last' = [op |-> "put", ok |-> r.ok]
          IN  Returns(DeltaDeltaStreamWriter_put(ts_stream_, stream_, x))
    /\ UNCHANGED <<blockVars, reader, output>>

\* DeltaDeltaStreamReader over the bytes written so far
DeltaDeltaOpenReader ==
    /\ ~reader.open
    /\ ~input.failed
    /\ accepted # <<>>
    /\ reader' = [open |-> TRUE, stream_ |-> Base128StreamReader(0, stream_.pos_),
                  dd |-> DeltaDeltaStreamReader]
    /\ last' = [op |-> "open"]
    /\ UNCHANGED <<stream_, ts_stream_, blockVars, input, accepted, output>>

\* reader.next(), once per value written; a call that throws ends the reading
DeltaDeltaNext ==
    /\ reader.open
    /\ last.op = "next" => last.ok
    /\ Len(output) < Len(accepted)
    /\ LET Returns(r) ==
               /\ reader' = [reader EXCEPT !.stream_ = r.r, !.dd = r.d]
               /\ output' = IF r.ok THEN Append(output, r.value) ELSE output
               /\ last' = [op |-> "next", ok |-> r.ok]
       IN  Returns(DeltaDeltaStreamReader_next(reader.dd, reader.stream_, stream_.mem))
    /\ UNCHANGED <<stream_, ts_stream_, blockVars, input, accepted>>

NextDeltaDelta == DeltaDeltaTput \/ DeltaDeltaPut \/ DeltaDeltaOpenReader \/ DeltaDeltaNext

SpecDeltaDelta == InitDeltaDelta /\ [][NextDeltaDelta]_vars

\* C19: whatever was written, chunk by chunk with tput or value by value with
\* put, next called once per value returns the values written, in order, and
\* no call fails.
DeltaDeltaRoundTrip ==
    (reader.open /\ ~input.failed) =>
        /\ \A i \in 1..Len(output) : output[i] = accepted[i]
        /\ last.op = "next" => last.ok

====
